---- MODULE Spec2Model ----
(***************************************************************************)
(* Model of the aigi3 repository: the validation steps of                  *)
(* scripts/setup_dev_env.py (class DevEnvSetup), the agent factories of    *)
(* agents/example.py and the container declarations of                     *)
(* workspace/dev_resources.py.                                             *)
(*                                                                         *)
(* The validators read the world around the script: the process           *)
(* environment (os.environ), the docker-compose.yml file, the machine      *)
(* (psutil, platform, shutil.which) and the services and tools the         *)
(* deployment check probes (subprocess, socket, HTTP, psycopg).  The world *)
(* is chosen initially; every validator is one action that records what    *)
(* it returned (or the exception it let escape) in ret.                    *)
(***************************************************************************)
EXTENDS Integers, Sequences, FiniteSets, TLC

VARIABLES
    env,        \* os.environ
    compose,    \* the docker-compose.yml file
    system,     \* what psutil and platform.python_version_tuple report
    tools,      \* which of git, docker and node are installed
    platform,   \* platform.system()
    probes,     \* how each probe of validate_deployment answers
    ret,        \* what the last validator call returned or raised
    ws_settings,      \* workspace.settings.ws_settings
    resources,        \* the namespace of workspace.dev_resources
    agent_settings,   \* agents.settings.agent_settings
    agent,            \* the Agent the last factory call returned
    pc,         \* where a run of setup_dev_environment stands
    trace,      \* what the script has called, printed, created and run so far
    answer,     \* what the user types at the 'Continue anyway?' prompt
    pytest,     \* how the pytest process ends
    fault       \* which file operation of setup_test_environment fails (0: none)

world == <<env, compose, system, tools, platform, probes>>

\* what the validators neither read nor change
others == <<ws_settings, resources, agent_settings, agent, pc, trace, answer, pytest, fault>>

\* the state of a run of setup_dev_environment and what it meets
setup == <<pc, trace, answer, pytest, fault>>

vars == <<env, compose, system, tools, platform, probes, ret,
          ws_settings, resources, agent_settings, agent,
          pc, trace, answer, pytest, fault>>

(***************************************************************************)
(* Bounds                                                                  *)
(***************************************************************************)
\* at most this many of the required variables are unset or empty at once
MaxAbsent == 2
\* at most this many external probes of one validate_deployment run fail
MaxFaults == 2
\* the factories are called with this many different ids of each kind
MaxIds == 2

(***************************************************************************)
(* Python values                                                           *)
(***************************************************************************)
\* Optional[str]: None, or a string
None == [some |-> FALSE, val |-> ""]
Some(s) == [some |-> TRUE, val |-> s]

\* Python truthiness of an Optional[str]: None and "" are falsy
Truthy(o) == o.some /\ o.val # ""

\* an empty dict
EmptyDict == [k \in {} |-> ""]

Range(s) == {s[i] : i \in DOMAIN s}

RECURSIVE SubsetsUpTo(_, _)
\* the subsets of S with at most k elements
SubsetsUpTo(S, k) ==
    IF k = 0 THEN {{}}
    ELSE LET P == SubsetsUpTo(S, k - 1) IN P \cup {T \cup {x} : T \in P, x \in S}

(***************************************************************************)
(* The process environment                                                 *)
(***************************************************************************)
\* validate_env_vars: required_vars, in declaration order (name, description)
required_vars ==
    << <<"OPENAI_API_KEY", "OpenAI API key">>,
       <<"PHI_API_KEY", "Phi API key">>,
       <<"DB_HOST", "Database host">>,
       <<"DB_PORT", "Database port">>,
       <<"DB_USER", "Database user">>,
       <<"DB_PASSWORD", "Database password">>,
       <<"DB_DATABASE", "Database name">>,
       <<"REDIS_HOST", "Redis host">>,
       <<"REDIS_PORT", "Redis port">>,
       <<"REDIS_PASSWORD", "Redis password">>,
       <<"QDRANT_HOST", "Qdrant host">>,
       <<"QDRANT_PORT", "Qdrant port">>,
       <<"RUNTIME_ENV", "Runtime environment">>,
       <<"PHI_MONITORING", "Phi monitoring">> >>

EnvNames == {required_vars[i][1] : i \in DOMAIN required_vars}

\* a non-empty value for each variable, as a configured .env would give it
SampleValue(var) ==
    CASE var = "DB_HOST" -> "localhost"
      [] var = "DB_PORT" -> "5433"
      [] var \in {"DB_USER", "DB_PASSWORD", "DB_DATABASE"} -> "ai"
      [] var = "REDIS_HOST" -> "localhost"
      [] var = "REDIS_PORT" -> "6379"
      [] var = "QDRANT_HOST" -> "localhost"
      [] var = "QDRANT_PORT" -> "6333"
      [] var = "RUNTIME_ENV" -> "dev"
      [] var = "PHI_MONITORING" -> "True"
      [] OTHER -> "sk-key"

\* os.environ with the variables of unset removed and those of empty set to ""
EnvWith(unset, empty) ==
    [v \in EnvNames \ unset |-> IF v \in empty THEN "" ELSE SampleValue(v)]

FullEnv == EnvWith({}, {})

\* the environments in which at most k required variables are unset or empty
Envs(k) ==
    UNION {{EnvWith(U, A \ U) : U \in SUBSET A} : A \in SubsetsUpTo(EnvNames, k)}

\* os.getenv(var)
getenv(e, var) == IF var \in DOMAIN e THEN Some(e[var]) ELSE None

\* os.getenv(var, default)
getenv_default(e, var, default) == IF var \in DOMAIN e THEN Some(e[var]) ELSE Some(default)

(***************************************************************************)
(* The docker-compose.yml file                                             *)
(***************************************************************************)
\* validate_docker_compose: required_services, in order
required_services == <<"db", "redis", "qdrant", "api", "streamlit">>

ServiceNames == Range(required_services)

\* A compose file.  file: "missing" (exists() is False), "unreadable" (open
\* raises), "invalid" (yaml.safe_load raises) or "ok".  doc: the kind of the
\* parsed document, "null" (empty file) or "map".  has_services: 'services'
\* is a key of the document.  services: the kind of its value, "null", "list"
\* or "map"; names: the entries of the list or the keys of the mapping.
\* db: the kind of services['db'], "null" or "map"; db_keys: its keys.
ComposeFile(file, doc, has_services, services, names, db, db_keys) ==
    [file |-> file, doc |-> doc, has_services |-> has_services,
     services |-> services, names |-> names, db |-> db, db_keys |-> db_keys]

NoFile(file) == ComposeFile(file, "null", FALSE, "null", {}, "null", {})

DbKeys == {"image", "environment", "volumes"}

Composes ==
    {NoFile(f) : f \in {"missing", "unreadable", "invalid"}}
    \cup {ComposeFile("ok", "null", FALSE, "null", {}, "null", {})}
    \cup {ComposeFile("ok", "map", FALSE, "null", {}, "null", {})}
    \cup {ComposeFile("ok", "map", TRUE, "null", {}, "null", {})}
    \cup {ComposeFile("ok", "map", TRUE, "list", n, "null", {}) : n \in SUBSET ServiceNames}
    \cup {ComposeFile("ok", "map", TRUE, "map", n, "null", {}) : n \in SUBSET ServiceNames}
    \cup {ComposeFile("ok", "map", TRUE, "map", n, "map", k) :
            n \in {m \in SUBSET ServiceNames : "db" \in m}, k \in SUBSET DbKeys}

\* a complete compose file
GoodCompose == ComposeFile("ok", "map", TRUE, "map", ServiceNames, "map", DbKeys)

(***************************************************************************)
(* What a call left behind                                                 *)
(***************************************************************************)
\* fn returned (ok, issues[, fixes]); log lists the probes it made, in order
Returned(fn, ok, issues, fixes, log) ==
    [fn |-> fn, returned |-> TRUE, raised |-> "", ok |-> ok,
     issues |-> issues, fixes |-> fixes, log |-> log]

\* fn let exception exc escape; issues and fixes are its locals at that point
Raised(fn, exc, issues, fixes, log) ==
    [fn |-> fn, returned |-> FALSE, raised |-> exc, ok |-> FALSE,
     issues |-> issues, fixes |-> fixes, log |-> log]

NoCall == [fn |-> "", returned |-> FALSE, raised |-> "", ok |-> FALSE,
           issues |-> <<>>, fixes |-> EmptyDict, log |-> <<>>]

(***************************************************************************)
(* DevEnvSetup.validate_env_vars                                           *)
(***************************************************************************)
MissingVarIssue(pair) ==
    "Missing " \o pair[2] \o " in environment variables: " \o pair[1]

RECURSIVE MissingVarsUnsetOnly(_, _)
\* mutant of MissingVars: tests "os.getenv(var) is None", so "" passes
MissingVarsUnsetOnly(e, pairs) ==
    IF pairs = <<>> THEN <<>>
    ELSE (IF ~getenv(e, Head(pairs)[1]).some
             THEN <<MissingVarIssue(Head(pairs))>> ELSE <<>>)
         \o MissingVarsUnsetOnly(e, Tail(pairs))

RECURSIVE MissingVars(_, _)
\* the loop over required_vars.items(): one entry per falsy variable
MissingVars(e, pairs) ==
    IF pairs = <<>> THEN <<>>
    ELSE (IF ~Truthy(getenv(e, Head(pairs)[1]))
             THEN <<MissingVarIssue(Head(pairs))>> ELSE <<>>)
         \o MissingVars(e, Tail(pairs))

\* (ok, missing_vars)
validate_env_vars(e) ==
    LET missing_vars == MissingVars(e, required_vars)
    IN  [ok |-> Len(missing_vars) = 0, issues |-> missing_vars]

ValidateEnvVars ==
    /\ ret' = LET r == validate_env_vars(env)
              IN  Returned("validate_env_vars", r.ok, r.issues, EmptyDict, <<>>)
    /\ UNCHANGED <<world, others>>

(***************************************************************************)
(* DevEnvSetup.validate_configuration                                      *)
(***************************************************************************)
\* required_vars of validate_configuration
config_required_vars == <<"OPENAI_API_KEY", "PHI_API_KEY">>

\* db_config: (key, default), in declaration order
db_config ==
    << <<"DB_HOST", "localhost">>,
       <<"DB_PORT", "5432">>,
       <<"DB_USER", "ai">>,
       <<"DB_PASSWORD", "ai">>,
       <<"DB_DATABASE", "ai">> >>

RECURSIVE MissingConfigVars(_, _)
MissingConfigVars(e, names) ==
    IF names = <<>> THEN <<>>
    ELSE (IF ~Truthy(getenv(e, Head(names)))
             THEN <<"Missing environment variable: " \o Head(names)>> ELSE <<>>)
         \o MissingConfigVars(e, Tail(names))

\* if not os.getenv(key, value)
DbConfigMissing(e, pair) == ~Truthy(getenv_default(e, pair[1], pair[2]))

RECURSIVE MissingDbConfig(_, _)
MissingDbConfig(e, pairs) ==
    IF pairs = <<>> THEN <<>>
    ELSE (IF DbConfigMissing(e, Head(pairs))
             THEN <<"Missing database configuration: " \o Head(pairs)[1]>> ELSE <<>>)
         \o MissingDbConfig(e, Tail(pairs))

\* (ok, issues)
validate_configuration(e, c) ==
    LET issues == MissingConfigVars(e, config_required_vars)
                  \o (IF c.file = "missing"
                         THEN <<"Missing docker-compose.yml file">> ELSE <<>>)
                  \o MissingDbConfig(e, db_config)
    IN  [ok |-> Len(issues) = 0, issues |-> issues]

ValidateConfiguration ==
    /\ ret' = LET r == validate_configuration(env, compose)
              IN  Returned("validate_configuration", r.ok, r.issues, EmptyDict, <<>>)
    /\ UNCHANGED <<world, others>>

(***************************************************************************)
(* DevEnvSetup.validate_docker_compose                                     *)
(***************************************************************************)
ComposeError(exc) == "Error validating docker-compose.yml: " \o exc

RECURSIVE MissingServices(_, _)
\* the loop over required_services against the keys (entries) of services
MissingServices(names, required) ==
    IF required = <<>> THEN <<>>
    ELSE (IF Head(required) \notin names
             THEN <<"Required service '" \o Head(required)
                     \o "' not found in docker-compose.yml">>
             ELSE <<>>)
         \o MissingServices(names, Tail(required))

\* mutant of DbServiceIssues: the volumes check comes first
DbServiceIssuesSwapped(db_keys) ==
    (IF "volumes" \notin db_keys
        THEN <<"Database volumes not configured">> ELSE <<>>)
    \o (IF "environment" \notin db_keys
           THEN <<"Database environment variables not configured">> ELSE <<>>)

\* the checks of services['db']
DbServiceIssues(db_keys) ==
    (IF "environment" \notin db_keys
        THEN <<"Database environment variables not configured">> ELSE <<>>)
    \o (IF "volumes" \notin db_keys
           THEN <<"Database volumes not configured">> ELSE <<>>)

\* the issues the try block leaves, the exception it ends with ("" for none)
\* and whether it returned early
ComposeChecks(c) ==
    CASE c.file = "unreadable" ->
            [issues |-> <<>>, exc |-> "PermissionError", early |-> FALSE]
      [] c.file = "invalid" ->
            [issues |-> <<>>, exc |-> "YAMLError", early |-> FALSE]
      [] c.doc = "null" ->
            \* "services" not in None
            [issues |-> <<>>, exc |-> "TypeError", early |-> FALSE]
      [] ~c.has_services ->
            [issues |-> <<"No services defined in docker-compose.yml">>,
             exc |-> "", early |-> TRUE]
      [] c.services = "null" ->
            \* service not in None
            [issues |-> <<>>, exc |-> "TypeError", early |-> FALSE]
      [] c.services = "list" ->
            \* services["db"] on a list
            [issues |-> MissingServices(c.names, required_services),
             exc |-> IF "db" \in c.names THEN "TypeError" ELSE "", early |-> FALSE]
      [] c.db = "null" /\ "db" \in c.names ->
            \* "environment" not in None
            [issues |-> MissingServices(c.names, required_services),
             exc |-> "TypeError", early |-> FALSE]
      [] OTHER ->
            [issues |-> MissingServices(c.names, required_services)
                        \o (IF "db" \in c.names THEN DbServiceIssues(c.db_keys) ELSE <<>>),
             exc |-> "", early |-> FALSE]

\* mutant of validate_docker_compose: the early return for a missing file
\* comes before the issue is appended
validate_docker_compose_silent(c) ==
    IF c.file = "missing"
    THEN [ok |-> FALSE, issues |-> <<>>]
    ELSE LET t == ComposeChecks(c)
             issues == t.issues \o (IF t.exc # "" THEN <<ComposeError(t.exc)>> ELSE <<>>)
         IN  IF t.early THEN [ok |-> FALSE, issues |-> issues]
             ELSE [ok |-> Len(issues) = 0, issues |-> issues]

\* mutant of validate_docker_compose: the except branch starts a new list
validate_docker_compose_forgetful(c) ==
    IF c.file = "missing"
    THEN [ok |-> FALSE, issues |-> <<"docker-compose.yml file not found">>]
    ELSE LET t == ComposeChecks(c)
             issues == IF t.exc # "" THEN <<ComposeError(t.exc)>> ELSE t.issues
         IN  IF t.early THEN [ok |-> FALSE, issues |-> issues]
             ELSE [ok |-> Len(issues) = 0, issues |-> issues]

\* (ok, issues)
validate_docker_compose(c) ==
    IF c.file = "missing"
    THEN [ok |-> FALSE, issues |-> <<"docker-compose.yml file not found">>]
    ELSE LET t == ComposeChecks(c)
             issues == t.issues \o (IF t.exc # "" THEN <<ComposeError(t.exc)>> ELSE <<>>)
         IN  IF t.early THEN [ok |-> FALSE, issues |-> issues]
             ELSE [ok |-> Len(issues) = 0, issues |-> issues]

ValidateDockerCompose ==
    /\ ret' = LET r == validate_docker_compose(compose)
              IN  Returned("validate_docker_compose", r.ok, r.issues, EmptyDict, <<>>)
    /\ UNCHANGED <<world, others>>

(***************************************************************************)
(* class DevEnvSetup                                                       *)
(***************************************************************************)
\* the methods the class body defines
DefinedMethods ==
    {"__init__", "check_system_requirements", "validate_dependencies",
     "setup_monitoring", "handle_service_restart", "handle_cache_clear",
     "handle_connection_optimization", "log_auto_fix", "log_auto_fix_error",
     "write_to_log", "display_system_info", "setup_test_environment",
     "create_example_tests", "run_tests", "setup_dev_environment",
     "create_agent_tests", "create_db_tests", "create_performance_tests",
     "create_vector_store_tests", "create_load_tests", "create_security_tests",
     "create_redis_tests", "create_qdrant_tests", "create_team_coordination_tests",
     "create_deployment_tests", "validate_configuration", "validate_deployment",
     "get_db_url", "validate_env_vars", "validate_docker_compose",
     "handle_service_failure"}

\* self.min_requirements (RAM and disk in GB)
min_requirements == [python |-> <<3, 9>>, ram_gb |-> 8, disk_gb |-> 10, cpu_cores |-> 2]

(***************************************************************************)
(* DevEnvSetup.check_system_requirements                                   *)
(***************************************************************************)
\* A probe of the system either yields a value or raises.
Measured(v) == [ok |-> TRUE, v |-> v]
ProbeFailed(v) == [ok |-> FALSE, v |-> v]

\* tuple comparison (a, b) < (c, d)
TupleLess(x, y) == x[1] < y[1] \/ (x[1] = y[1] /\ x[2] < y[2])

\* f"{mib / 1024:.1f}": a size given in MiB, in GB with one decimal
FormatGb(mib) ==
    LET tenths == (20 * mib + 1024) \div 2048
    IN  ToString(tenths \div 10) \o "." \o ToString(tenths % 10)

\* mutant of LessThanGb: a size equal to the minimum counts as too small
NotMoreThanGb(mib, gb) == mib <= gb * 1024

\* bytes / (1024 * 1024 * 1024) < gb, for a size given in MiB
LessThanGb(mib, gb) == mib < gb * 1024

PythonIssue ==
    "Python " \o ToString(min_requirements.python[1]) \o "."
    \o ToString(min_requirements.python[2]) \o " or higher required"

RamIssue(mib) ==
    "Minimum " \o ToString(min_requirements.ram_gb) \o "GB RAM required, found "
    \o FormatGb(mib) \o "GB"

DiskIssue(mib) ==
    "Minimum " \o ToString(min_requirements.disk_gb)
    \o "GB free disk space required, found " \o FormatGb(mib) \o "GB"

CpuIssue(n) ==
    "Minimum " \o ToString(min_requirements.cpu_cores)
    \o " CPU cores required, found " \o ToString(n)

SystemError == "Error checking system requirements: probe failed"

\* the system as the four probes see it: the Python version, the total
\* memory and the free disk space in MiB, the physical core count (the
\* probe fails when psutil returns None for it)
Systems ==
    [python : {Measured(<<3, 8>>), Measured(<<3, 9>>), Measured(<<2, 12>>),
               ProbeFailed(<<0, 0>>)},
     ram : {Measured(8191), Measured(8192), ProbeFailed(0)},
     disk : {Measured(10239), Measured(10240), ProbeFailed(0)},
     cpu : {Measured(1), Measured(2), ProbeFailed(0)}]

\* mutant of RequirementsError: the issues found before the failure are lost
RequirementsErrorAlone(issues) == [ok |-> FALSE, issues |-> <<SystemError>>]

\* except Exception: the issues so far and the error, not ok
RequirementsError(issues) == [ok |-> FALSE, issues |-> issues \o <<SystemError>>]

\* (ok, issues)
check_system_requirements(sys) ==
    LET py == IF TupleLess(sys.python.v, min_requirements.python)
                 THEN <<PythonIssue>> ELSE <<>>
        ram == IF LessThanGb(sys.ram.v, min_requirements.ram_gb)
                  THEN <<RamIssue(sys.ram.v)>> ELSE <<>>
        disk == IF LessThanGb(sys.disk.v, min_requirements.disk_gb)
                   THEN <<DiskIssue(sys.disk.v)>> ELSE <<>>
        cpu == IF sys.cpu.v < min_requirements.cpu_cores
                  THEN <<CpuIssue(sys.cpu.v)>> ELSE <<>>
    IN  CASE ~sys.python.ok -> RequirementsError(<<>>)
          [] sys.python.ok /\ ~sys.ram.ok -> RequirementsError(py)
          [] sys.python.ok /\ sys.ram.ok /\ ~sys.disk.ok -> RequirementsError(py \o ram)
          [] sys.python.ok /\ sys.ram.ok /\ sys.disk.ok /\ ~sys.cpu.ok ->
                RequirementsError(py \o ram \o disk)
          [] OTHER ->
                LET issues == py \o ram \o disk \o cpu
                IN  [ok |-> Len(issues) = 0, issues |-> issues]

CheckSystemRequirements ==
    /\ ret' = LET r == check_system_requirements(system)
              IN  Returned("check_system_requirements", r.ok, r.issues, EmptyDict, <<>>)
    /\ UNCHANGED <<world, others>>

(***************************************************************************)
(* DevEnvSetup.validate_dependencies                                       *)
(***************************************************************************)
\* git, docker and node are the results of shutil.which("git"),
\* self.check_docker_installation() and shutil.which("node")
validate_dependencies(git, docker, node) ==
    LET g == IF ~git THEN <<"Git is not installed">> ELSE <<>>
    IN  IF "check_docker_installation" \notin DefinedMethods
        THEN \* AttributeError, caught by except Exception
             [ok |-> FALSE,
              issues |-> g \o <<"Error validating dependencies: AttributeError">>]
        ELSE LET issues ==
                    g
                    \o (IF ~docker
                           THEN <<"Docker is not installed or not running">> ELSE <<>>)
                    \o (IF ~node
                           THEN <<"Node.js is recommended but not installed">> ELSE <<>>)
             IN  [ok |-> Len(issues) = 0, issues |-> issues]

ValidateDependencies ==
    /\ ret' = LET r == validate_dependencies(tools.git, tools.docker, tools.node)
              IN  Returned("validate_dependencies", r.ok, r.issues, EmptyDict, <<>>)
    /\ UNCHANGED <<world, others>>

(***************************************************************************)
(* DevEnvSetup.get_db_url                                                  *)
(***************************************************************************)
get_db_url == "postgresql://ai:ai@localhost:5433/ai"

(***************************************************************************)
(* DevEnvSetup.validate_deployment                                         *)
(***************************************************************************)
\* the services table, in dict order; keys holds the optional keys present
services ==
    << [name |-> "database", host |-> "localhost", port |-> 5432,
        keys |-> {"check_cmd", "verify_cmd"}, url |-> "",
        check_cmd |-> <<"pg_isready", "-h", "localhost", "-p", "5432">>,
        fix |-> "docker-compose up -d db",
        verify_cmd |-> "SELECT version(), current_database()"],
       [name |-> "redis", host |-> "localhost", port |-> 6379,
        keys |-> {"check_cmd", "verify_cmd"}, url |-> "",
        check_cmd |-> <<"redis-cli", "ping">>,
        fix |-> "docker-compose up -d redis",
        verify_cmd |-> "PING"],
       [name |-> "qdrant", host |-> "localhost", port |-> 6333,
        keys |-> {"url"}, url |-> "http://localhost:6333/health",
        check_cmd |-> <<>>,
        fix |-> "docker-compose up -d qdrant",
        verify_cmd |-> ""],
       [name |-> "streamlit", host |-> "localhost", port |-> 8501,
        keys |-> {"url"}, url |-> "http://localhost:8501/health",
        check_cmd |-> <<>>,
        fix |-> "docker-compose up -d streamlit",
        verify_cmd |-> ""],
       [name |-> "fastapi", host |-> "localhost", port |-> 8000,
        keys |-> {"url"}, url |-> "http://localhost:8000/health",
        check_cmd |-> <<>>,
        fix |-> "docker-compose up -d api",
        verify_cmd |-> ""] >>

\* The external probes of one run, each with the outcomes other than "ok"
\* that its call can have.
ProbeSites ==
    {"docker", "wsl", "alembic", "extension"}
    \cup {"sock_" \o services[i].name : i \in DOMAIN services}
    \cup {"health_" \o services[i].name : i \in DOMAIN services}
    \cup {"verify_" \o services[i].name :
            i \in {j \in DOMAIN services : "verify_cmd" \in services[j].keys}}

UrlHealthSites ==
    {"health_" \o services[i].name : i \in {j \in DOMAIN services : "url" \in services[j].keys}}

FaultsOf(site) ==
    CASE site = "docker" -> {"no_server_version", "CalledProcessError", "FileNotFoundError"}
      [] site = "wsl" -> {"empty", "low", "ValueError", "IndexError", "FileNotFoundError"}
      [] site = "alembic" -> {"not_head", "CalledProcessError", "FileNotFoundError"}
      [] site = "extension" -> {"no_row", "OperationalError"}
      [] site = "verify_database" -> {"no_row", "OperationalError"}
      [] site = "verify_redis" -> {"no_pong", "FileNotFoundError"}
      [] site \in UrlHealthSites -> {"status_503", "RequestException"}
      [] site \in {"health_database", "health_redis"} ->
            {"nonzero", "TimeoutExpired", "FileNotFoundError"}
      [] OTHER -> {"refused", "timeout"}

\* the outcomes of all probes in which at most k probes do not answer "ok"
ProbeOutcomes(k) ==
    UNION {
        {[s \in ProbeSites |-> IF s \in F THEN g[s] ELSE "ok"] :
            g \in {h \in [F -> UNION {FaultsOf(s) : s \in F}] :
                    \A s \in F : h[s] \in FaultsOf(s)}} :
        F \in SubsetsUpTo(ProbeSites, k)}

\* what a stretch of validate_deployment did: the issues it appended, the
\* fixes it set, the probes it made and the exception that ended it ("" if
\* it ran to its end)
Did(issues, fixes, log, exc) == [issues |-> issues, fixes |-> fixes, log |-> log, exc |-> exc]

Nothing == Did(<<>>, EmptyDict, <<>>, "")

\* a stretch that appended one issue and set one fix
Issue(issue, key, fix) == Did(<<issue>>, key :> fix, <<>>, "")

\* a stretch that made one probe
Probe(service, step, target, outcome) ==
    Did(<<>>, EmptyDict,
        <<[service |-> service, step |-> step, target |-> target, outcome |-> outcome]>>,
        "")

\* a stretch ended by exception exc
Throw(exc) == Did(<<>>, EmptyDict, <<>>, exc)

\* a, then b unless a ended with an exception
Then(a, b) ==
    IF a.exc # "" THEN a
    ELSE Did(a.issues \o b.issues, b.fixes @@ a.fixes, a.log \o b.log, b.exc)

\* try: a  except <caught>: handler
Catch(a, caught, handler) ==
    IF a.exc \in caught THEN Then(Did(a.issues, a.fixes, a.log, ""), handler) ELSE a

\* Docker Environment Checks
DockerChecks(plat, o) ==
    LET info == Probe("docker", "info", <<"docker", "info">>, o["docker"])
        server ==
            CASE o["docker"] \in {"CalledProcessError", "FileNotFoundError"} ->
                    Throw(o["docker"])
              [] o["docker"] = "no_server_version" ->
                    Issue("Docker server not running properly", "docker_server",
                          "Start Docker Desktop and wait for it to initialize completely")
              [] OTHER -> Nothing
        memory ==
            CASE o["wsl"] \in {"FileNotFoundError", "ValueError", "IndexError"} ->
                    Throw(o["wsl"])
              [] o["wsl"] \in {"empty", "low"} ->
                    Issue("Docker/WSL memory allocation insufficient", "docker_memory",
                          "Open Docker Desktop > Settings > Resources > Advanced and increase memory to at least 8GB")
              [] OTHER -> Nothing
        wsl ==
            IF plat = "Windows"
            THEN Catch(Then(Probe("docker", "wsl", <<"wsl", "free", "-g">>, o["wsl"]), memory),
                       {"CalledProcessError"},
                       Issue("WSL not properly configured", "wsl_config",
                             "Run 'wsl --install' in PowerShell as administrator"))
            ELSE Nothing
    IN  Catch(Then(info, Then(server, wsl)),
              {"CalledProcessError"},
              Issue("Docker is not running or not installed properly", "docker_install",
                    "Download and install Docker Desktop from https://www.docker.com/products/docker-desktop"))

\* the exceptions the service loop catches: socket.timeout, socket.error
\* (OSError), requests.RequestException, subprocess.SubprocessError
ServiceCaught ==
    {"timeout", "refused", "FileNotFoundError", "RequestException", "TimeoutExpired"}

\* one iteration of the service loop
CheckService(config, o) ==
    LET name == config.name
        sock == o["sock_" \o name]
        health == o["health_" \o name]
        connect ==
            Then(Probe(name, "socket", <<config.host, ToString(config.port)>>, sock),
                 IF sock = "ok" THEN Nothing ELSE Throw(sock))
        healthcheck ==
            IF "url" \in config.keys
            THEN Then(Probe(name, "health_url", <<config.url>>, health),
                      CASE health = "RequestException" -> Throw(health)
                        [] health = "status_503" ->
                              Issue(name \o " health check failed with status 503",
                                    name \o "_health", config.fix)
                        [] OTHER -> Nothing)
            ELSE IF "check_cmd" \in config.keys
            THEN Then(Probe(name, "health_cmd", config.check_cmd, health),
                      CASE health \in {"TimeoutExpired", "FileNotFoundError"} -> Throw(health)
                        [] health = "nonzero" ->
                              Issue(name \o " health check command failed",
                                    name \o "_health", config.fix)
                        [] OTHER -> Nothing)
            ELSE Nothing
        verify ==
            IF "verify_cmd" \notin config.keys THEN Nothing
            ELSE LET v == o["verify_" \o name]
                 IN  IF name = "database"
                     THEN Then(Probe(name, "verify", <<get_db_url>>, v),
                               CASE v = "OperationalError" -> Throw(v)
                                 [] v = "no_row" ->
                                       Issue(name \o " verification failed",
                                             name \o "_verify",
                                             "Check database logs: docker-compose logs db")
                                 [] OTHER -> Nothing)
                     ELSE IF name = "redis"
                     THEN Then(Probe(name, "verify", <<"redis-cli", config.verify_cmd>>, v),
                               CASE v = "FileNotFoundError" -> Throw(v)
                                 [] v = "no_pong" ->
                                       Issue(name \o " verification failed",
                                             name \o "_verify",
                                             "Check Redis logs: docker-compose logs redis")
                                 [] OTHER -> Nothing)
                     ELSE Nothing
    IN  Catch(Then(connect, Then(healthcheck, verify)),
              ServiceCaught,
              Issue("Cannot connect to " \o name \o " at " \o config.host \o ":"
                        \o ToString(config.port),
                    name \o "_connection", config.fix))

RECURSIVE ServiceChecks(_, _)
\* Service Health Checks: the loop over services.items()
ServiceChecks(configs, o) ==
    IF configs = <<>> THEN Nothing
    ELSE Then(CheckService(Head(configs), o), ServiceChecks(Tail(configs), o))

\* the exceptions that derive from Exception
Exceptions ==
    ServiceCaught \cup {"CalledProcessError", "OperationalError", "ValueError",
                        "IndexError", "TypeError", "AttributeError"}

\* Database Migration and Extension Checks
MigrationChecks(o) ==
    LET alembic ==
            Then(Probe("database", "alembic", <<"alembic", "current">>, o["alembic"]),
                 CASE o["alembic"] \in {"CalledProcessError", "FileNotFoundError"} ->
                        Throw(o["alembic"])
                   [] o["alembic"] = "not_head" ->
                        Issue("Database migrations are not up to date", "migrations",
                              "Run 'alembic upgrade head' to update migrations")
                   [] OTHER -> Nothing)
        extension ==
            Then(Probe("database", "extension", <<get_db_url>>, o["extension"]),
                 CASE o["extension"] = "OperationalError" -> Throw(o["extension"])
                   [] o["extension"] = "no_row" ->
                        Issue("PostgreSQL vector extension not installed", "vector_extension",
                              "docker exec -it aigi3-db psql -U ai -d ai; CREATE EXTENSION IF NOT EXISTS vector;")
                   [] OTHER -> Nothing)
        body == Then(alembic, extension)
    IN  IF body.exc \in Exceptions
        THEN Then(Did(body.issues, body.fixes, body.log, ""),
                  Issue("Database validation failed: " \o body.exc, "database",
                        "Ensure database is running and accessible"))
        ELSE body

\* mutant of ExtendWith: the issues are added without a fix
ExtendWithoutFix(result, key, fix) ==
    IF Len(result.issues) > 0 THEN Did(result.issues, EmptyDict, <<>>, "") ELSE Nothing

\* issues.extend(result[1]) and fixes[key] = fix, if result[1] is not empty
ExtendWith(result, key, fix) ==
    IF Len(result.issues) > 0 THEN Did(result.issues, key :> fix, <<>>, "") ELSE Nothing

\* Environment Variable Validation and Docker Compose Configuration
ConfigChecks(e, c) ==
    Then(ExtendWith(validate_env_vars(e), "env_vars",
                    "Create or update .env file with missing variables"),
         ExtendWith(validate_docker_compose(c), "docker_compose",
                    "Update docker-compose.yml with required services and configurations"))

\* the whole body, up to the return statement
DeploymentChecks(e, c, plat, o) ==
    Then(DockerChecks(plat, o),
         Then(ServiceChecks(services, o),
              Then(MigrationChecks(o), ConfigChecks(e, c))))

\* (ok, issues, fixes), or the exception that escapes
validate_deployment(e, c, plat, o) ==
    LET d == DeploymentChecks(e, c, plat, o)
    IN  IF d.exc # ""
        THEN Raised("validate_deployment", d.exc, d.issues, d.fixes, d.log)
        ELSE Returned("validate_deployment", Len(d.issues) = 0, d.issues, d.fixes, d.log)

ValidateDeployment ==
    /\ ret' = validate_deployment(env, compose, platform, probes)
    /\ UNCHANGED <<world, others>>

(***************************************************************************)
(* What a top-level call of the script does, in order                      *)
(***************************************************************************)
\* ev: "call" and "return" of a method, "print" and "input" on the console,
\* "mkdir" and "write" on the file system ("failed" when the operation
\* raises), "run" of a child process
Event(ev, what) == [ev |-> ev, what |-> what]

Printed(what) == Event("print", what)

\* repr() of an Optional[str]
Repr(x) == IF x.some THEN "'" \o x.val \o "'" ELSE "None"

Called(method, arg) == Event("call", method \o "(" \o arg \o ")")

RECURSIVE Join(_)
\* " ".join(words)
Join(words) ==
    IF Len(words) = 0 THEN ""
    ELSE IF Len(words) = 1 THEN words[1]
    ELSE words[1] \o " " \o Join(Tail(words))

\* the attributes __init__ sets on the instance
InstanceAttributes ==
    {"project_root", "venv_path", "requirements_file", "docker_compose_file", "console",
     "monitoring_config_file", "min_requirements", "tests_dir", "test_config_file",
     "test_templates", "monitoring_config", "retry_config", "logging_config"}

\* getattr(self, name) succeeds
HasAttr(name) == name \in DefinedMethods \cup InstanceAttributes

(***************************************************************************)
(* DevEnvSetup.run_tests                                                   *)
(***************************************************************************)
\* A pytest process: started is False when subprocess.run cannot start it
\* (pytest is not on the PATH); returncode is its exit code; stderr tells
\* whether it wrote to standard error.
Pytest(started, returncode, stderr) ==
    [started |-> started, returncode |-> returncode, stderr |-> stderr]

PytestPassed == Pytest(TRUE, 0, FALSE)

PytestOutcomes ==
    {Pytest(FALSE, 0, FALSE)}
    \cup {Pytest(TRUE, c, e) : c \in {0, 1, 5}, e \in BOOLEAN}

\* the values of test_type
TestTypes == {None, Some(""), Some("unit"), Some("integration")}

\* mutant of pytest_command: the marker is passed whenever test_type is not None
pytest_command_not_none(test_type) ==
    <<"pytest">> \o (IF test_type.some THEN <<"-m", test_type.val>> ELSE <<>>)

\* cmd = ["pytest"]; if test_type: cmd.extend(["-m", test_type])
pytest_command(test_type) ==
    <<"pytest">> \o (IF Truthy(test_type) THEN <<"-m", test_type.val>> ELSE <<>>)

\* the return value and what the call did
run_tests(test_type, p) ==
    LET run == Event("run", Join(pytest_command(test_type)))
    IN  IF ~p.started
        THEN \* except Exception
             [result |-> FALSE, events |-> <<run, Printed("Error running tests")>>]
        ELSE [result |-> p.returncode = 0,
              events |-> <<run, Printed("stdout")>>
                         \o (IF p.stderr
                                THEN <<Printed("Test Warnings:"), Printed("stderr")>>
                                ELSE <<>>)]

RunTests ==
    /\ pc = "idle"
    /\ \E test_type \in TestTypes :
          LET r == run_tests(test_type, pytest)
          IN  /\ ret' = Returned("run_tests", r.result, <<>>, EmptyDict, <<>>)
              /\ trace' = <<Called("run_tests", Repr(test_type))>> \o r.events
    /\ UNCHANGED <<world, ws_settings, resources, agent_settings, agent, pc, answer,
                   pytest, fault>>

(***************************************************************************)
(* DevEnvSetup.handle_service_failure                                      *)
(***************************************************************************)
\* the values of service_name
FailedServices == {"database", "redis", "mailer"}

\* a statement that looks attr up on self and then does events
Step(attr, events) == [attr |-> attr, events |-> events]

RECURSIVE RunSteps(_, _)
\* the statements in order, up to the first whose attribute is missing
RunSteps(steps, attrs) ==
    IF steps = <<>> THEN [events |-> <<>>, exc |-> ""]
    ELSE IF Head(steps).attr \notin attrs THEN [events |-> <<>>, exc |-> "AttributeError"]
    ELSE LET rest == RunSteps(Tail(steps), attrs)
         IN  [events |-> Head(steps).events \o rest.events, exc |-> rest.exc]

\* attrs: the attributes the instance has; critical: self.critical_services.
\* What the call did and the exception it let escape ("" if it returned).
handle_service_failure(service_name, attrs, critical) ==
    LET body ==
            RunSteps(<<Step("critical_services", <<>>)>>
                     \o (IF service_name \in critical
                            THEN <<Step("restart_service",
                                        <<Called("restart_service", service_name)>>),
                                   Step("validate_service_health",
                                        <<Called("validate_service_health", service_name)>>)>>
                            ELSE <<>>)
                     \o <<Step("notify_admins",
                               <<Called("notify_admins",
                                        "Service " \o service_name \o " recovered")>>)>>,
                     attrs)
    IN  IF body.exc = "" THEN body
        ELSE \* except Exception as e: self.escalate_incident(service_name, str(e))
             LET handler ==
                     RunSteps(<<Step("escalate_incident",
                                     <<Called("escalate_incident", service_name)>>)>>,
                              attrs)
             IN  [events |-> body.events \o handler.events, exc |-> handler.exc]

HandleServiceFailure ==
    /\ pc = "idle"
    /\ \E service_name \in FailedServices :
          LET r == handle_service_failure(service_name,
                                          DefinedMethods \cup InstanceAttributes, {})
          IN  /\ ret' = IF r.exc = ""
                        THEN Returned("handle_service_failure", FALSE, <<>>, EmptyDict, <<>>)
                        ELSE Raised("handle_service_failure", r.exc, <<>>, EmptyDict, <<>>)
              /\ trace' = <<Called("handle_service_failure", "'" \o service_name \o "'")>>
                          \o r.events
    /\ UNCHANGED <<world, ws_settings, resources, agent_settings, agent, pc, answer,
                   pytest, fault>>

(***************************************************************************)
(* DevEnvSetup.__init__ (test_templates) and the test generators           *)
(***************************************************************************)
Template(type, name, method) == [type |-> type, name |-> name, method |-> method]

\* self.test_templates, in the order its entries are evaluated
test_templates ==
    << Template("unit", "agents", "create_agent_tests"),
       Template("unit", "tools", "create_tool_tests"),
       Template("unit", "models", "create_model_tests"),
       Template("unit", "vector_store", "create_vector_store_tests"),
       Template("unit", "knowledge_base", "create_knowledge_base_tests"),
       Template("unit", "monitoring", "create_monitoring_tests"),
       Template("integration", "database", "create_db_tests"),
       Template("integration", "api", "create_api_tests"),
       Template("integration", "storage", "create_storage_tests"),
       Template("integration", "redis", "create_redis_tests"),
       Template("integration", "qdrant", "create_qdrant_tests"),
       Template("integration", "team_coordination", "create_team_coordination_tests"),
       Template("e2e", "workflow", "create_workflow_tests"),
       Template("e2e", "performance", "create_performance_tests"),
       Template("e2e", "deployment", "create_deployment_tests"),
       Template("e2e", "security", "create_security_tests"),
       Template("e2e", "load", "create_load_tests") >>

\* the file each generator of the class passes to self.write_test_file
generator_file(method) ==
    CASE method = "create_agent_tests" -> "unit/test_agents.py"
      [] method = "create_db_tests" -> "integration/test_database.py"
      [] method = "create_performance_tests" -> "e2e/test_performance.py"
      [] method = "create_vector_store_tests" -> "unit/test_vector_store.py"
      [] method = "create_load_tests" -> "e2e/test_load.py"
      [] method = "create_security_tests" -> "e2e/test_security.py"
      [] method = "create_redis_tests" -> "integration/test_redis.py"
      [] method = "create_qdrant_tests" -> "integration/test_qdrant.py"
      [] method = "create_team_coordination_tests" -> "integration/test_team_coordination.py"
      [] method = "create_deployment_tests" -> "e2e/test_deployment.py"

\* DevEnvSetup(): the bound methods of test_templates are looked up one
\* after the other
construct(attrs) ==
    RunSteps([i \in DOMAIN test_templates |-> Step(test_templates[i].method, <<>>)], attrs)

\* self.<method>(): the generator is looked up and called, and calls
\* self.write_test_file(<file>, test_content)
generate(method, attrs) ==
    RunSteps(IF method \in attrs
             THEN <<Step(method, <<Called(method, "")>>),
                    Step("write_test_file", <<Event("write", generator_file(method))>>)>>
             ELSE <<Step(method, <<>>)>>,
             attrs)

\* what a call left in ret: it returned None or let exc escape
Outcome(fn, exc) ==
    IF exc = "" THEN Returned(fn, FALSE, <<>>, EmptyDict, <<>>)
    ELSE Raised(fn, exc, <<>>, EmptyDict, <<>>)

Construct ==
    /\ pc = "idle"
    /\ LET r == construct(DefinedMethods \cup InstanceAttributes)
       IN  /\ ret' = Outcome("__init__", r.exc)
           /\ trace' = <<Called("DevEnvSetup", "")>> \o r.events
    /\ UNCHANGED <<world, ws_settings, resources, agent_settings, agent, pc, answer,
                   pytest, fault>>

Generate ==
    /\ pc = "idle"
    /\ \E i \in DOMAIN test_templates :
          LET r == generate(test_templates[i].method, DefinedMethods \cup InstanceAttributes)
          IN  /\ ret' = Outcome(test_templates[i].method, r.exc)
              /\ trace' = <<Event("call", "test_templates['" \o test_templates[i].type
                                          \o "']['" \o test_templates[i].name \o "']()")>>
                          \o r.events
    /\ UNCHANGED <<world, ws_settings, resources, agent_settings, agent, pc, answer,
                   pytest, fault>>

(***************************************************************************)
(* DevEnvSetup.setup_test_environment and create_example_tests             *)
(***************************************************************************)
\* the file operations of setup_test_environment, in order; the last three
\* are those of create_example_tests
\* mutant of test_environment_operations: the configuration files are
\* written before the directories are made
test_environment_operations_files_first ==
    << Event("write", "pytest.ini"), Event("write", "tests/conftest.py"),
       Event("mkdir", "tests/unit"), Event("mkdir", "tests/integration"),
       Event("mkdir", "tests/e2e"), Event("mkdir", "tests/fixtures"),
       Event("mkdir", "tests/mocks"),
       Event("write", "tests/unit/test_agents.py"),
       Event("write", "tests/integration/test_database.py"),
       Event("write", "tests/e2e/test_api.py") >>

test_environment_operations ==
    << Event("mkdir", "tests/unit"), Event("mkdir", "tests/integration"),
       Event("mkdir", "tests/e2e"), Event("mkdir", "tests/fixtures"),
       Event("mkdir", "tests/mocks"),
       Event("write", "pytest.ini"), Event("write", "tests/conftest.py"),
       Event("write", "tests/unit/test_agents.py"),
       Event("write", "tests/integration/test_database.py"),
       Event("write", "tests/e2e/test_api.py") >>

\* the faults a run can meet: none (0) or the k-th file operation raising OSError
Faults == 0..Len(test_environment_operations)

\* The operations done and the exception that ended them ("" for none).
\* The try statement of the method has no except clause: nothing is caught.
setup_test_environment(k) ==
    IF k = 0
    THEN [events |-> test_environment_operations, exc |-> ""]
    ELSE [events |-> SubSeq(test_environment_operations, 1, k - 1)
                     \o <<Event("failed", test_environment_operations[k].what)>>,
          exc |-> "OSError"]

(***************************************************************************)
(* DevEnvSetup.setup_dev_environment                                       *)
(***************************************************************************)
\* what the user can type at the prompt; None when standard input is closed
Answers ==
    {None} \cup {Some(a) : a \in {"y", "Y", "yes", "Yes, go on", "n", "N", "", " y", "ok"}}

\* mutant of StartsWithY: the answer is not lowered first
StartsWithLowerY(a) == Len(a) >= 1 /\ SubSeq(a, 1, 1) = "y"

\* a.lower().startswith('y')
StartsWithY(a) == Len(a) >= 1 /\ SubSeq(a, 1, 1) \in {"y", "Y"}

\* display_system_info raises when psutil cannot read the memory or the disk
display_system_info(sys) ==
    IF sys.ram.ok /\ sys.disk.ok
    THEN [events |-> <<Printed("System Information")>>, exc |-> ""]
    ELSE [events |-> <<>>, exc |-> "psutil.Error"]

PrintedIssues(issues) == [i \in DOMAIN issues |-> Printed("- " \o issues[i])]

\* mutant of initial_test_type: the whole suite is run
initial_test_type_all == None

\* self.run_tests("unit")
initial_test_type == Some("unit")

\* mutant of SetupError: the exception is swallowed after the panel
SetupErrorSwallowed(exc) ==
    [events |-> <<Printed("Error during setup"),
                  Printed("Development Environment Setup Complete!")>>,
     exc |-> ""]

\* except Exception as e: print the error panel; raise
SetupError(exc) == [events |-> <<Printed("Error during setup")>>, exc |-> exc]

\* the run ends: the function returns None or lets exc escape
SetupEnds(events, exc) ==
    /\ trace' = trace \o events
    /\ pc' = "idle"
    /\ ret' = IF exc = ""
              THEN Returned("setup_dev_environment", FALSE, <<>>, EmptyDict, <<>>)
              ELSE Raised("setup_dev_environment", exc, <<>>, EmptyDict, <<>>)

\* the run goes on at position next
SetupGoes(events, next) ==
    /\ trace' = trace \o events
    /\ pc' = next
    /\ ret' = ret

SetupUnchanged == UNCHANGED <<world, ws_settings, resources, agent_settings, agent,
                              answer, pytest, fault>>

\* the banner and display_system_info
SetupDevEnvironment ==
    /\ pc = "idle"
    /\ LET d == display_system_info(system)
           begin == <<Called("setup_dev_environment", ""),
                      Printed("Setting up AIGI3 Development Environment")>>
       IN  IF d.exc = ""
           THEN /\ trace' = begin \o d.events
                /\ pc' = "requirements"
                /\ ret' = NoCall
           ELSE /\ trace' = begin \o d.events
                /\ pc' = "idle"
                /\ ret' = Raised("setup_dev_environment", d.exc, <<>>, EmptyDict, <<>>)
    /\ SetupUnchanged

\* System requirements check
SetupCheckRequirements ==
    /\ pc = "requirements"
    /\ LET r == check_system_requirements(system)
       IN  IF r.ok
           THEN SetupGoes(<<Called("check_system_requirements", "")>>, "dependencies")
           ELSE SetupGoes(<<Called("check_system_requirements", ""),
                            Printed("System Requirements Issues:")>>
                          \o PrintedIssues(r.issues),
                          "continue")
    /\ SetupUnchanged

\* if not self.console.input("\nContinue anyway? (y/n): ").lower().startswith('y')
SetupAskContinue ==
    /\ pc = "continue"
    /\ LET ask == <<Event("input", "Continue anyway? (y/n): ")>>
       IN  IF ~answer.some THEN SetupEnds(ask, "EOFError")
           ELSE IF StartsWithY(answer.val) THEN SetupGoes(ask, "dependencies")
           ELSE SetupEnds(ask, "")
    /\ SetupUnchanged

\* Dependencies check
SetupValidateDependencies ==
    /\ pc = "dependencies"
    /\ LET r == validate_dependencies(tools.git, tools.docker, tools.node)
       IN  SetupGoes(<<Called("validate_dependencies", "")>>
                     \o (IF r.ok THEN <<>>
                         ELSE <<Printed("Dependency Issues:")>> \o PrintedIssues(r.issues)),
                     "test_environment")
    /\ SetupUnchanged

\* self.setup_test_environment(), inside the try
SetupTestEnvironment ==
    /\ pc = "test_environment"
    /\ LET t == setup_test_environment(fault)
           call == <<Called("setup_test_environment", "")>> \o t.events
       IN  IF t.exc = ""
           THEN SetupGoes(call \o <<Event("return", "setup_test_environment")>>,
                          "initial_tests")
           ELSE LET e == SetupError(t.exc)
                IN  SetupEnds(call \o e.events, e.exc)
    /\ SetupUnchanged

\* tests_passed = self.run_tests("unit") and the warning
SetupRunTests ==
    /\ pc = "initial_tests"
    /\ LET r == run_tests(initial_test_type, pytest)
       IN  SetupGoes(<<Called("run_tests", Repr(initial_test_type))>> \o r.events
                     \o <<Event("return", "run_tests")>>
                     \o (IF r.result THEN <<>>
                         ELSE <<Printed("Warning: Some initial tests failed")>>),
                     "complete")
    /\ SetupUnchanged

\* the completion panel
SetupComplete ==
    /\ pc = "complete"
    /\ SetupEnds(<<Printed("Development Environment Setup Complete!")>>, "")
    /\ SetupUnchanged

\* no run of setup_dev_environment is under way
Idle ==
    /\ pc = "idle"
    /\ trace = <<>>
    /\ answer = Some("y")
    /\ pytest = PytestPassed
    /\ fault = 0

(***************************************************************************)
(* workspace/dev_resources.py                                              *)
(***************************************************************************)
\* A constructor call: the class and the keyword arguments as written, in
\* order, each a pair (keyword, value).
Call(cls, kwargs) == [cls |-> cls, kwargs |-> kwargs]

Keywords(call) == {call.kwargs[i][1] : i \in DOMAIN call.kwargs}

\* the value given for keyword k
Kw(call, k) ==
    call.kwargs[CHOOSE i \in DOMAIN call.kwargs : call.kwargs[i][1] = k][2]

\* the keywords a call gives more than once
RepeatedKeywords(call) ==
    {call.kwargs[i][1] : i \in {j \in DOMAIN call.kwargs :
        \E k \in DOMAIN call.kwargs : k # j /\ call.kwargs[k][1] = call.kwargs[j][1]}}

\* a method of the container library called on a declared app
LibraryValue(method, app) == "<" \o Kw(app, "name") \o "." \o method \o "()>"

dev_image(ws) ==
    Call("DockerImage",
         << <<"name", ws.image_repo \o "/" \o ws.image_name>>,
            <<"tag", ws.dev_env>>,
            <<"enabled", ws.build_images>>,
            <<"path", ws.ws_root>>,
            <<"push_image", FALSE>> >>)

dev_redis(ws) ==
    Call("Redis",
         << <<"name", ws.ws_name \o "-redis">>,
            <<"enabled", TRUE>>,
            <<"host_port", 6379>>,
            <<"environment", [REDIS_PASSWORD |-> "ai_redis_password"]>> >>)

dev_qdrant(ws) ==
    Call("QdrantDb",
         << <<"name", ws.ws_name \o "-qdrant">>,
            <<"enabled", TRUE>>,
            <<"host_port", 6333>> >>)

\* mutant of dev_db: published on the default Postgres port
dev_db_default_port(ws) ==
    Call("PgVectorDb",
         << <<"name", ws.ws_name \o "-db">>,
            <<"enabled", ws.dev_db_enabled>>,
            <<"pg_user", "ai">>,
            <<"pg_password", "ai">>,
            <<"pg_database", "ai">>,
            <<"host_port", 5432>> >>)

dev_db(ws) ==
    Call("PgVectorDb",
         << <<"name", ws.ws_name \o "-db">>,
            <<"enabled", ws.dev_db_enabled>>,
            <<"pg_user", "ai">>,
            <<"pg_password", "ai">>,
            <<"pg_database", "ai">>,
            <<"host_port", 5433>> >>)

\* container_env: (key, value) in declaration order; the values read from
\* the environment are Optional[str], the others are rendered as text
container_env(ws, e) ==
    << <<"RUNTIME_ENV", Some("dev")>>,
       <<"OPENAI_API_KEY", getenv(e, "OPENAI_API_KEY")>>,
       <<"PHI_MONITORING", Some("True")>>,
       <<"PHI_API_KEY", getenv(e, "PHI_API_KEY")>>,
       <<"DB_HOST", Some(LibraryValue("get_db_host", dev_db(ws)))>>,
       <<"DB_PORT", Some(LibraryValue("get_db_port", dev_db(ws)))>>,
       <<"DB_USER", Some(LibraryValue("get_db_user", dev_db(ws)))>>,
       <<"DB_PASS", Some(LibraryValue("get_db_password", dev_db(ws)))>>,
       <<"DB_DATABASE", Some(LibraryValue("get_db_database", dev_db(ws)))>>,
       <<"REDIS_HOST", Some(LibraryValue("get_host", dev_redis(ws)))>>,
       <<"REDIS_PORT", Some(LibraryValue("get_port", dev_redis(ws)))>>,
       <<"REDIS_PASSWORD", Some("ai_redis_password")>>,
       <<"QDRANT_HOST", Some(LibraryValue("get_host", dev_qdrant(ws)))>>,
       <<"QDRANT_PORT", Some(LibraryValue("get_port", dev_qdrant(ws)))>>,
       <<"WAIT_FOR_DB", Some(ToString(ws.dev_db_enabled))>>,
       <<"WAIT_FOR_REDIS", Some("True")>>,
       <<"WAIT_FOR_QDRANT", Some("True")>>,
       <<"MAX_MEMORY", Some("2G")>>,
       <<"MAX_CPU", Some("1.5")>>,
       <<"GRACEFUL_SHUTDOWN_TIMEOUT", Some("30")>>,
       <<"HEALTH_CHECK_INTERVAL", Some("15")>>,
       <<"STREAMLIT_SHARE_ENABLED", Some("true")>>,
       <<"STREAMLIT_CHAT_HISTORY", Some("true")>>,
       <<"STREAMLIT_MAX_MESSAGE_SIZE", Some("5242880")>>,
       <<"STREAMLIT_RATE_LIMIT", Some("100")>>,
       <<"STREAMLIT_SESSION_TIMEOUT", Some("3600")>> >>

\* str(bool).lower()
LowerBool(b) == IF b THEN "true" ELSE "false"

dev_streamlit(ws, e) ==
    Call("Streamlit",
         << <<"name", ws.ws_name \o "-app">>,
            <<"enabled", ws.dev_app_enabled>>,
            <<"image", dev_image(ws)>>,
            <<"command", "streamlit run app/Home.py">>,
            <<"port_number", 8501>>,
            <<"debug_mode", TRUE>>,
            <<"mount_workspace", TRUE>>,
            <<"streamlit_server_headless", TRUE>>,
            <<"env_vars", container_env(ws, e)>>,
            <<"use_cache", ws.use_cache>>,
            <<"secrets_file", ws.ws_root \o "/workspace/secrets/dev_app_secrets.yml">>,
            <<"depends_on", <<dev_db(ws), dev_redis(ws), dev_qdrant(ws)>> >>,
            <<"environment",
              container_env(ws, e)
              \o << <<"STREAMLIT_THEME_BASE", Some("light")>>,
                    <<"STREAMLIT_SERVER_MAX_UPLOAD_SIZE", Some("50")>>,
                    <<"STREAMLIT_CLIENT_TOOLBAR_MODE", Some("minimal")>>,
                    <<"STREAMLIT_CLIENT_SHOW_ERROR_DETAILS", Some(LowerBool(ws.debug_mode))>>,
                    <<"STREAMLIT_BROWSER_GATHER_USAGE_STATS", Some("false")>> >> >>,
            <<"health_check_endpoint", "/health">>,
            <<"mount_workspace", TRUE>>,
            <<"reload_on_change", TRUE>> >>)

dev_fastapi(ws, e) ==
    Call("FastApi",
         << <<"name", ws.ws_name \o "-api">>,
            <<"enabled", ws.dev_api_enabled>>,
            <<"image", dev_image(ws)>>,
            <<"command", "uvicorn api.main:app --reload">>,
            <<"port_number", 8000>>,
            <<"debug_mode", TRUE>>,
            <<"mount_workspace", TRUE>>,
            <<"env_vars", container_env(ws, e)>>,
            <<"use_cache", ws.use_cache>>,
            <<"secrets_file", ws.ws_root \o "/workspace/secrets/dev_app_secrets.yml">>,
            <<"depends_on", <<dev_db(ws), dev_redis(ws), dev_qdrant(ws)>> >> >>)

\* mutant of dev_apps: the applications are listed before the services
dev_apps_applications_first(ws, e) ==
    <<dev_streamlit(ws, e), dev_fastapi(ws, e), dev_db(ws), dev_redis(ws), dev_qdrant(ws)>>

\* the apps list of dev_docker_resources
dev_apps(ws, e) ==
    <<dev_db(ws), dev_redis(ws), dev_qdrant(ws), dev_streamlit(ws, e), dev_fastapi(ws, e)>>

dev_docker_resources(ws, e) ==
    Call("DockerResources",
         << <<"env", ws.dev_env>>,
            <<"network", ws.ws_name>>,
            <<"apps", dev_apps(ws, e)>> >>)

\* the port an app is published on: host_port of a database app,
\* port_number of an application
PublishedPort(app) ==
    IF "host_port" \in Keywords(app) THEN Kw(app, "host_port") ELSE Kw(app, "port_number")

\* the module's names once its statements have run
DevResources(ws, e) ==
    [loaded |-> TRUE,
     dev_image |-> dev_image(ws),
     dev_redis |-> dev_redis(ws),
     dev_qdrant |-> dev_qdrant(ws),
     dev_db |-> dev_db(ws),
     container_env |-> container_env(ws, e),
     dev_streamlit |-> dev_streamlit(ws, e),
     dev_fastapi |-> dev_fastapi(ws, e),
     dev_docker_resources |-> dev_docker_resources(ws, e)]

NotLoaded == [loaded |-> FALSE]

\* the workspace settings the declarations read
WorkspaceSettings ==
    [ws_name : {"aigi3"}, image_repo : {"local"}, image_name : {"aigi3"},
     dev_env : {"dev"}, ws_root : {"/app"},
     build_images : BOOLEAN, use_cache : BOOLEAN, debug_mode : BOOLEAN,
     dev_db_enabled : BOOLEAN, dev_app_enabled : BOOLEAN, dev_api_enabled : BOOLEAN]

DefaultSettings ==
    [ws_name |-> "aigi3", image_repo |-> "local", image_name |-> "aigi3",
     dev_env |-> "dev", ws_root |-> "/app",
     build_images |-> FALSE, use_cache |-> TRUE, debug_mode |-> FALSE,
     dev_db_enabled |-> TRUE, dev_app_enabled |-> TRUE, dev_api_enabled |-> TRUE]

\* import workspace.dev_resources
LoadDevResources ==
    /\ resources' = DevResources(ws_settings, env)
    /\ UNCHANGED <<world, ret, ws_settings, agent_settings, agent, setup>>

(***************************************************************************)
(* agents/example.py                                                       *)
(***************************************************************************)
\* a tool, storage or model object built with no keyword arguments
New(cls) == Call(cls, <<>>)

\* Python's None where an object is expected
NoneObject == New("NoneType")

\* db.session.db_url
db_url == "<db_url>"

example_agent_storage ==
    Call("PgAgentStorage",
         << <<"table_name", "example_agent_sessions">>, <<"db_url", db_url>> >>)

example_agent_knowledge ==
    Call("AgentKnowledge",
         << <<"vector_db",
              Call("PgVector",
                   << <<"table_name", "example_agent_knowledge">>,
                      <<"db_url", db_url>>,
                      <<"search_type", "SearchType.hybrid">> >>)>> >>)

\* mutant of OrElse: only None falls back to y, the empty string is kept
OrElseWhenNone(x, y) == IF x.some THEN x.val ELSE y

\* x or y, for an Optional[str] x
OrElse(x, y) == IF Truthy(x) THEN x.val ELSE y

\* mutant of get_finance_agent: the market data tool is left out
get_finance_agent_without_yfinance(settings) ==
    Call("Agent",
         << <<"name", "Finance Analyst">>,
            <<"agent_id", "finance-analyst">>,
            <<"model", Call("OpenAIChat", << <<"id", settings.gpt_4>> >>)>>,
            <<"tools",
              << New("Calculator"), New("DuckDuckGo"), New("PDFTools"), New("SQLTools"),
                 New("ChartTools"), New("TableTools"), New("JsonTools"), New("ApiTools") >> >>,
            <<"description", "senior investment analyst">>,
            <<"instructions",
              <<"Financial Analysis Protocol", "Data Presentation", "Team Collaboration">> >>,
            <<"markdown", TRUE>>,
            <<"show_tool_calls", TRUE>> >>)

\* the instructions are given by the heading of each entry
get_finance_agent(settings) ==
    Call("Agent",
         << <<"name", "Finance Analyst">>,
            <<"agent_id", "finance-analyst">>,
            <<"model", Call("OpenAIChat", << <<"id", settings.gpt_4>> >>)>>,
            <<"tools",
              << Call("YFinanceTools", << <<"enable_all", TRUE>> >>),
                 New("Calculator"), New("DuckDuckGo"), New("PDFTools"), New("SQLTools"),
                 New("ChartTools"), New("TableTools"), New("JsonTools"), New("ApiTools") >> >>,
            <<"description", "senior investment analyst">>,
            <<"instructions",
              <<"Financial Analysis Protocol", "Data Presentation", "Team Collaboration">> >>,
            <<"markdown", TRUE>>,
            <<"show_tool_calls", TRUE>> >>)

\* today is datetime.now().strftime("%Y-%m-%d") at the time of the call
get_research_agent(settings, today) ==
    Call("Agent",
         << <<"name", "Research Analyst">>,
            <<"agent_id", "research-analyst">>,
            <<"model", Call("OpenAIChat", << <<"id", settings.gpt_4>> >>)>>,
            <<"tools",
              << New("DuckDuckGo"), New("Newspaper4k"),
                 Call("ExaTools", << <<"start_published_date", today>> >>),
                 New("PDFTools"), New("WebScraper"), New("DatetimeTools"), New("TextTools"),
                 New("ImageTools"), New("XmlTools"), New("CsvTools") >> >>,
            <<"description", "senior research analyst">>,
            <<"instructions", <<"Research Protocol", "Report Format", "Team Collaboration">> >>,
            <<"markdown", TRUE>>,
            <<"show_tool_calls", TRUE>> >>)

get_productivity_agent(settings) ==
    Call("Agent",
         << <<"name", "Productivity Assistant">>,
            <<"agent_id", "productivity-assistant">>,
            <<"model", Call("OpenAIChat", << <<"id", settings.gpt_4>> >>)>>,
            <<"tools",
              << New("PythonREPL"), New("FileManager"), New("Calculator"),
                 New("YouTubeTools"), New("WebScraper"), New("EmailTools"), New("PDFTools"),
                 New("SQLTools"), New("DatetimeTools") >> >>,
            <<"description", "productivity expert">>,
            <<"instructions",
              <<"Task Automation", "Document Management", "Information Processing",
                "Team Collaboration">> >>,
            <<"markdown", TRUE>>,
            <<"show_tool_calls", TRUE>> >>)

\* mutant of example_team: the productivity assistant is left out
example_team_of_two(settings, today) ==
    <<get_finance_agent(settings), get_research_agent(settings, today)>>

\* the team list of the coordinator
example_team(settings, today) ==
    <<get_finance_agent(settings), get_research_agent(settings, today),
      get_productivity_agent(settings)>>

get_example_agent(settings, today, model_id, user_id, session_id, debug_mode) ==
    Call("Agent",
         << <<"name", "AIGI3 Super Agent">>,
            <<"agent_id", "aigi3-super-agent">>,
            <<"session_id", session_id>>,
            <<"user_id", user_id>>,
            <<"model",
              Call("OpenAIChat",
                   << <<"id", OrElse(model_id, settings.gpt_4)>>,
                      <<"max_tokens", settings.default_max_completion_tokens>>,
                      <<"temperature", settings.default_temperature>> >>)>>,
            <<"team", example_team(settings, today)>>,
            <<"tools",
              << New("DuckDuckGo"), New("WebScraper"), New("Calculator"), New("PythonREPL"),
                 New("FileManager"), Call("YFinanceTools", << <<"enable_all", TRUE>> >>),
                 New("YouTubeTools"), New("PDFTools"), New("EmailTools"), New("SQLTools"),
                 New("DatetimeTools") >> >>,
            <<"description", "AIGI3, an advanced AI agent team coordinator">>,
            <<"instructions",
              <<"Team Coordination", "Financial Analysis", "Research Integration",
                "Knowledge Management", "Productivity Enhancement", "Quality Control">> >>,
            <<"markdown", TRUE>>,
            <<"show_tool_calls", TRUE>>,
            <<"add_datetime_to_instructions", TRUE>>,
            <<"storage", example_agent_storage>>,
            <<"read_chat_history", TRUE>>,
            <<"knowledge", example_agent_knowledge>>,
            <<"search_knowledge", TRUE>>,
            <<"monitoring", TRUE>>,
            <<"debug_mode", debug_mode>>,
            <<"monitoring_config",
              [metrics |-> {"team_coordination_latency", "agent_memory_usage",
                            "knowledge_base_hits"},
               tracing |-> [enabled |-> TRUE, sample_rate |-> "1.0"]]>>,
            <<"coordination_patterns",
              [consensus |-> [min_agreements |-> 2, timeout |-> 30],
               fallback |-> [retry_count |-> 3, backup_agent |-> "productivity-agent"]]>>,
            <<"streaming", TRUE>>,
            <<"stream_tokens", TRUE>>,
            <<"stream_template", "{agent_name}: {message}">>,
            <<"conversation_memory", TRUE>>,
            <<"memory_window", 10>>,
            <<"error_handling",
              [ui_friendly_errors |-> TRUE, retry_on_failure |-> TRUE, max_retries |-> 3,
               error_messages |-> {"rate_limit", "token_limit", "api_error"}]>> >>)

\* what a factory call left behind: the factory, its arguments and the Agent
Made(fn, args, value) == [made |-> TRUE, fn |-> fn, args |-> args, value |-> value]

NoArgs == [model_id |-> None, user_id |-> None, session_id |-> None, debug_mode |-> FALSE]

NoAgent == [made |-> FALSE, fn |-> "", args |-> NoArgs, value |-> NoneObject]

\* agents.settings.agent_settings
AgentSettings ==
    [gpt_4 : {"gpt-4o", "gpt-4-turbo"},
     default_max_completion_tokens : {"16000"},
     default_temperature : {"0"}]

DefaultAgentSettings ==
    [gpt_4 |-> "gpt-4o", default_max_completion_tokens |-> "16000",
     default_temperature |-> "0"]

\* the dates a call can fall on
Dates == {"2026-11-05", "2026-11-06"}

ModelIdPool == <<"gpt-4o-mini", "o3-mini", "gpt-4.1", "gpt-4o">>
UserIdPool == <<"alice", "bob", "carol", "dave">>
SessionIdPool == <<"s-1", "s-2", "s-3", "s-4">>

\* None or one of the first MaxIds strings of the pool
Optionals(pool) == {None} \cup {Some(pool[i]) : i \in 1..MaxIds}

GetFinanceAgent ==
    /\ agent' = Made("get_finance_agent", NoArgs, get_finance_agent(agent_settings))
    /\ UNCHANGED <<world, ret, ws_settings, resources, agent_settings, setup>>

GetResearchAgent ==
    /\ \E today \in Dates :
          agent' = Made("get_research_agent", NoArgs,
                        get_research_agent(agent_settings, today))
    /\ UNCHANGED <<world, ret, ws_settings, resources, agent_settings, setup>>

GetProductivityAgent ==
    /\ agent' = Made("get_productivity_agent", NoArgs,
                     get_productivity_agent(agent_settings))
    /\ UNCHANGED <<world, ret, ws_settings, resources, agent_settings, setup>>

GetExampleAgent ==
    /\ \E today \in Dates,
          model_id \in Optionals(ModelIdPool) \cup {Some("")},
          user_id \in Optionals(UserIdPool),
          session_id \in Optionals(SessionIdPool),
          debug_mode \in BOOLEAN :
          agent' = Made("get_example_agent",
                        [model_id |-> model_id, user_id |-> user_id,
                         session_id |-> session_id, debug_mode |-> debug_mode],
                        get_example_agent(agent_settings, today, model_id, user_id,
                                          session_id, debug_mode))
    /\ UNCHANGED <<world, ret, ws_settings, resources, agent_settings, setup>>

(***************************************************************************)
(* Claims about the configuration validators                               *)
(***************************************************************************)
\* the 14 variables the claim lists, in its order
C4_Variables ==
    <<"OPENAI_API_KEY", "PHI_API_KEY", "DB_HOST", "DB_PORT", "DB_USER",
      "DB_PASSWORD", "DB_DATABASE", "REDIS_HOST", "REDIS_PORT", "REDIS_PASSWORD",
      "QDRANT_HOST", "QDRANT_PORT", "RUNTIME_ENV", "PHI_MONITORING">>

C4_Absent(v) == v \notin DOMAIN env \/ env[v] = ""

\* the issue of variable v ends with ": v"
C4_IsIssueOf(issue, v) ==
    /\ Len(issue) > Len(v) + 2
    /\ SubSeq(issue, Len(issue) - Len(v) - 1, Len(issue)) = ": " \o v
    /\ SubSeq(issue, 1, 8) = "Missing "

\* C4: validate_env_vars returns one issue per required variable that is
\* unset or empty, none for a variable with a non-empty value, in the
\* declaration order of the 14 variables, and is ok exactly when all 14 are
\* set and non-empty.
C4_EnvVarIssues ==
    ret.fn = "validate_env_vars" =>
        LET absent == SelectSeq(C4_Variables, C4_Absent)
        IN  /\ ret.returned
            /\ Len(ret.issues) = Len(absent)
            /\ \A i \in DOMAIN absent : C4_IsIssueOf(ret.issues[i], absent[i])
            /\ ret.ok <=> \A i \in DOMAIN C4_Variables : ~C4_Absent(C4_Variables[i])

\* validate_env_vars has reported an unset and an empty variable
C4_Witness ==
    /\ ret.fn = "validate_env_vars"
    /\ Len(ret.issues) = 2
    /\ \E v \in EnvNames : v \notin DOMAIN env
    /\ \E v \in DOMAIN env : env[v] = ""

C5_DbKeys == {"DB_HOST", "DB_PORT", "DB_USER", "DB_PASSWORD", "DB_DATABASE"}

\* C5: validate_configuration reports 'Missing database configuration: K'
\* for every K of the five database variables that is not present in the
\* environment, and for no K set to a non-empty value.
C5_MissingDbConfigReported ==
    ret.fn = "validate_configuration" =>
        \A K \in C5_DbKeys :
            LET reported == ("Missing database configuration: " \o K) \in Range(ret.issues)
            IN  /\ K \notin DOMAIN env => reported
                /\ (K \in DOMAIN env /\ env[K] # "") => ~reported

C6_Required == <<"db", "redis", "qdrant", "api", "streamlit">>

C6_NotFound(s) == "Required service '" \o s \o "' not found in docker-compose.yml"

\* the issues the claim lists for a document with a 'services' key
C6_ServiceIssues ==
    LET missing == SelectSeq(C6_Required, LAMBDA s : s \notin compose.names)
    IN  [i \in DOMAIN missing |-> C6_NotFound(missing[i])]
    \o (IF "db" \in compose.names /\ "environment" \notin compose.db_keys
           THEN <<"Database environment variables not configured">> ELSE <<>>)
    \o (IF "db" \in compose.names /\ "volumes" \notin compose.db_keys
           THEN <<"Database volumes not configured">> ELSE <<>>)

\* C6 as stated: file not found when the file does not exist, the single
\* issue 'No services defined' when the parsed document has no 'services'
\* key, and otherwise exactly the missing required services in order followed
\* by the two db checks.
C6_ComposeIssuesAsStated ==
    ret.fn = "validate_docker_compose" =>
        /\ ret.returned
        /\ compose.file = "missing" =>
              ~ret.ok /\ ret.issues = <<"docker-compose.yml file not found">>
        /\ (compose.file # "missing" /\ ~compose.has_services) =>
              ret.issues = <<"No services defined in docker-compose.yml">>
        /\ (compose.file # "missing" /\ compose.has_services) =>
              ret.issues = C6_ServiceIssues

\* the file parses to a mapping
C6_IsMapping == compose.file = "ok" /\ compose.doc = "map"

\* 'services' is a mapping, and so is its db entry if there is one
C6_ServicesWellFormed ==
    /\ compose.has_services
    /\ compose.services = "map"
    /\ "db" \in compose.names => compose.db = "map"

\* C6 amended: as stated, for a file that parses to a mapping whose
\* 'services' value (if present) is a mapping of service names to mappings.
C6_ComposeIssues ==
    ret.fn = "validate_docker_compose" =>
        /\ ret.returned
        /\ compose.file = "missing" =>
              ~ret.ok /\ ret.issues = <<"docker-compose.yml file not found">>
        /\ (C6_IsMapping /\ ~compose.has_services) =>
              ~ret.ok /\ ret.issues = <<"No services defined in docker-compose.yml">>
        /\ (C6_IsMapping /\ C6_ServicesWellFormed) =>
              ret.issues = C6_ServiceIssues

\* a compose file without redis and streamlit whose db has no volumes has
\* been validated
C6_Witness ==
    /\ ret.fn = "validate_docker_compose"
    /\ C6_IsMapping /\ C6_ServicesWellFormed
    /\ compose.names = {"db", "qdrant", "api"}
    /\ compose.db_keys = {"image", "environment"}
    /\ Len(ret.issues) = 3

(***************************************************************************)
(* Claims about the system requirements                                    *)
(***************************************************************************)
C18_StartsWith(s, prefix) == Len(s) >= Len(prefix) /\ SubSeq(s, 1, Len(prefix)) = prefix

\* which check an issue of check_system_requirements comes from
C18_Kind(issue) ==
    CASE C18_StartsWith(issue, "Python 3.9 or higher required") -> "python"
      [] C18_StartsWith(issue, "Minimum 8GB RAM required") -> "ram"
      [] C18_StartsWith(issue, "Minimum 10GB free disk space required") -> "disk"
      [] C18_StartsWith(issue, "Minimum 2 CPU cores required") -> "cpu"
      [] C18_StartsWith(issue, "Error checking system requirements") -> "error"
      [] OTHER -> "other"

C18_Kinds(issues) == [i \in DOMAIN issues |-> C18_Kind(issues[i])]

C18_Checks == <<"python", "ram", "disk", "cpu">>

\* the minimum of a check is not met: Python 3.9, 8 GB, 10 GB, 2 cores
C18_Unmet(check) ==
    CASE check = "python" ->
            system.python.v[1] < 3 \/ (system.python.v[1] = 3 /\ system.python.v[2] < 9)
      [] check = "ram" -> system.ram.v < 8 * 1024
      [] check = "disk" -> system.disk.v < 10 * 1024
      [] OTHER -> system.cpu.v < 2

C18_ProbeOk(check) ==
    CASE check = "python" -> system.python.ok
      [] check = "ram" -> system.ram.ok
      [] check = "disk" -> system.disk.ok
      [] OTHER -> system.cpu.ok

\* C18: when no probe fails, check_system_requirements reports exactly
\* one issue per unmet minimum (Python 3.9, 8 GB RAM, 10 GB free disk, 2
\* physical cores), in the order Python, RAM, disk, CPU, every check being
\* evaluated whatever the others found; a measurement equal to its minimum
\* gives no issue.
C18_AllChecks ==
    (ret.fn = "check_system_requirements" /\ \A c \in Range(C18_Checks) : C18_ProbeOk(c)) =>
        /\ ret.returned
        /\ C18_Kinds(ret.issues) = SelectSeq(C18_Checks, C18_Unmet)

\* a machine with exactly 8 GB of RAM, an old Python, too little disk and
\* one core has been checked: three issues, none for the RAM
C18_Witness ==
    /\ ret.fn = "check_system_requirements"
    /\ system.python = Measured(<<3, 8>>)
    /\ system.ram = Measured(8192)
    /\ system.disk = Measured(10239)
    /\ system.cpu = Measured(1)
    /\ C18_Kinds(ret.issues) = <<"python", "disk", "cpu">>

\* the position of the first check whose probe fails (5 when none does)
C19_FirstFailure ==
    CHOOSE i \in 1..5 :
        /\ i <= 4 => ~C18_ProbeOk(C18_Checks[i])
        /\ \A j \in 1..(i - 1) : C18_ProbeOk(C18_Checks[j])

\* C19: check_system_requirements never raises; when a probe fails it
\* returns not ok with the issues of the checks before the failing probe, in
\* order, followed by exactly one 'Error checking system requirements'
\* issue, and nothing from the checks after it.
C19_ProbeFailure ==
    ret.fn = "check_system_requirements" =>
        /\ ret.returned
        /\ C19_FirstFailure <= 4 =>
              /\ ~ret.ok
              /\ C18_Kinds(ret.issues) =
                    SelectSeq(SubSeq(C18_Checks, 1, C19_FirstFailure - 1), C18_Unmet)
                    \o <<"error">>

\* the core count was unavailable on a machine with an old Python and too
\* little RAM: two issues and the error
C19_Witness ==
    /\ ret.fn = "check_system_requirements"
    /\ system.python = Measured(<<3, 8>>)
    /\ system.ram = Measured(8191)
    /\ system.disk = Measured(10240)
    /\ ~system.cpu.ok
    /\ C18_Kinds(ret.issues) = <<"python", "ram", "error">>

(***************************************************************************)
(* Claims about the compose file's errors                                  *)
(***************************************************************************)
\* the file cannot be read or parsed, or parses to an empty document
C20_NoDocument ==
    compose.file \in {"unreadable", "invalid"} \/ (compose.file = "ok" /\ compose.doc = "null")

\* the document has a 'services' value of the given kind
C20_Services(kind) ==
    compose.file = "ok" /\ compose.doc = "map" /\ compose.has_services
    /\ compose.services = kind

C20_IsError(issue) == C18_StartsWith(issue, "Error validating docker-compose.yml")

\* the issues for the required services that are not entries of 'services'
C20_NotFound ==
    LET missing == SelectSeq(C6_Required, LAMBDA r : r \notin compose.names)
    IN  [i \in DOMAIN missing |-> C6_NotFound(missing[i])]

\* C20 as stated: once the file exists validate_docker_compose never
\* raises, and a file that cannot be read or parsed, an empty document and a
\* 'services' value that is not a mapping each give a result that is not ok
\* and contains an 'Error validating docker-compose.yml' issue.
C20_ComposeErrorsAsStated ==
    (ret.fn = "validate_docker_compose" /\ compose.file # "missing") =>
        /\ ret.returned
        /\ (C20_NoDocument \/ C20_Services("null") \/ C20_Services("list")) =>
              /\ ~ret.ok
              /\ \E i \in DOMAIN ret.issues : C20_IsError(ret.issues[i])

\* C20 amended: once the file exists validate_docker_compose never raises;
\* a file that cannot be read or parsed, an empty document, a null
\* 'services' value and a 'services' list that contains 'db' each give a
\* result that is not ok and whose issues are those collected before the
\* error followed by one 'Error validating docker-compose.yml' issue; a
\* 'services' list that does not contain 'db' gives a result that is not ok
\* with the missing-service issues only.
C20_ComposeErrors ==
    (ret.fn = "validate_docker_compose" /\ compose.file # "missing") =>
        /\ ret.returned
        /\ (C20_NoDocument \/ C20_Services("null")) =>
              /\ ~ret.ok
              /\ Len(ret.issues) = 1
              /\ C20_IsError(ret.issues[1])
        /\ (C20_Services("list") /\ "db" \in compose.names) =>
              /\ ~ret.ok
              /\ Len(ret.issues) = Len(C20_NotFound) + 1
              /\ SubSeq(ret.issues, 1, Len(C20_NotFound)) = C20_NotFound
              /\ C20_IsError(ret.issues[Len(ret.issues)])
        /\ (C20_Services("list") /\ "db" \notin compose.names) =>
              /\ ~ret.ok
              /\ ret.issues = C20_NotFound

\* a file whose 'services' is the list db, qdrant, api, streamlit has been
\* validated: the issue for redis, then the error
C20_Witness ==
    /\ ret.fn = "validate_docker_compose"
    /\ C20_Services("list")
    /\ compose.names = {"db", "qdrant", "api", "streamlit"}
    /\ Len(ret.issues) = 2
    /\ ret.issues[1] = C6_NotFound("redis")
    /\ C20_IsError(ret.issues[2])

(***************************************************************************)
(* Claims about the validators' results                                    *)
(***************************************************************************)
C1_Validators ==
    {"check_system_requirements", "validate_dependencies", "validate_configuration",
     "validate_env_vars", "validate_docker_compose", "validate_deployment"}

\* C1: whenever one of the six validators returns, its ok flag is True
\* if and only if its issue list is empty.
C1_OkIffNoIssues ==
    (ret.fn \in C1_Validators /\ ret.returned) => (ret.ok <=> ret.issues = <<>>)

\* validate_docker_compose has returned early for a missing file
C1_Witness ==
    /\ ret.fn = "validate_docker_compose"
    /\ ret.returned
    /\ compose.file = "missing"
    /\ ~ret.ok

\* the app of the topology behind a service name of validate_deployment
C3_App(service) ==
    CASE service = "database" -> dev_db(ws_settings)
      [] service = "redis" -> dev_redis(ws_settings)
      [] service = "qdrant" -> dev_qdrant(ws_settings)
      [] service = "streamlit" -> dev_streamlit(ws_settings, env)
      [] service = "fastapi" -> dev_fastapi(ws_settings, env)

C3_Port(service) == ToString(PublishedPort(C3_App(service)))

\* the address a probe of validate_deployment should have used
C3_Expected(p) ==
    CASE p.step = "socket" -> <<"localhost", C3_Port(p.service)>>
      [] p.step = "health_url" -> <<"http://localhost:" \o C3_Port(p.service) \o "/health">>
      [] p.step = "health_cmd" /\ p.service = "database" ->
            <<"pg_isready", "-h", "localhost", "-p", C3_Port("database")>>
      [] p.step \in {"verify", "extension"} /\ p.service = "database" ->
            <<"postgresql://ai:ai@localhost:" \o C3_Port("database") \o "/ai">>
      [] OTHER -> p.target

\* C3: every place where the setup script addresses a service uses the port
\* the topology publishes it on: the probes of validate_deployment, the URL
\* of get_db_url and the DB_PORT default of validate_configuration use 5433
\* for Postgres, and 6379, 6333, 8501, 8000 for the other services.
C3_PortsAgree ==
    /\ ret.fn = "validate_deployment" =>
          \A i \in DOMAIN ret.log : ret.log[i].target = C3_Expected(ret.log[i])
    /\ ret.fn = "validate_configuration" =>
          \A i \in DOMAIN db_config :
              db_config[i][1] = "DB_PORT" => db_config[i][2] = C3_Port("database")

C7_SocketProbes == {ret.log[i].service : i \in {j \in DOMAIN ret.log : ret.log[j].step = "socket"}}

\* C7: validate_deployment always returns its triple instead of raising; a
\* Docker that is not installed or not running is recorded as an issue and
\* the remaining checks (the five services) still run.
C7_AlwaysReturns ==
    ret.fn = "validate_deployment" =>
        /\ ret.returned
        /\ probes["docker"] \in {"FileNotFoundError", "CalledProcessError"} =>
              /\ "Docker is not running or not installed properly" \in Range(ret.issues)
              /\ C7_SocketProbes = {"database", "redis", "qdrant", "streamlit", "fastapi"}

\* C8: whenever validate_deployment returns, fixes is empty if and only if
\* issues is empty.
C8_FixesIffIssues ==
    (ret.fn = "validate_deployment" /\ ret.returned) =>
        (DOMAIN ret.fixes = {} <=> ret.issues = <<>>)

\* validate_deployment has returned issues of the environment only, with
\* their fix
C8_Witness ==
    /\ ret.fn = "validate_deployment"
    /\ ret.returned
    /\ ret.issues # <<>>
    /\ DOMAIN ret.fixes = {"env_vars"}

\* the services whose socket was probed, in the order of the probes
C17_SocketOrder ==
    LET socks == SelectSeq(ret.log, LAMBDA p : p.step = "socket")
    IN  [i \in DOMAIN socks |-> socks[i].service]

C17_CannotConnect(config) ==
    "Cannot connect to " \o config.name \o " at " \o config.host \o ":"
        \o ToString(config.port)

\* C17: validate_deployment probes the five services in the order database,
\* redis, qdrant, streamlit, fastapi whatever the earlier ones answered; a
\* service whose socket connection fails adds exactly one issue 'Cannot
\* connect to <service> at <host>:<port>' with the fix '<service>_connection'
\* and gets no health check and no verification.
C17_ServiceLoop ==
    ret.fn = "validate_deployment" =>
        /\ C17_SocketOrder = <<"database", "redis", "qdrant", "streamlit", "fastapi">>
        /\ \A i \in DOMAIN services :
              probes["sock_" \o services[i].name] # "ok" =>
                 /\ Len(SelectSeq(ret.issues,
                                  LAMBDA x : x = C17_CannotConnect(services[i]))) = 1
                 /\ (services[i].name \o "_connection") \in DOMAIN ret.fixes
                 /\ ret.fixes[services[i].name \o "_connection"] = services[i].fix
                 /\ \A j \in DOMAIN ret.log :
                       ret.log[j].service = services[i].name =>
                          ret.log[j].step \notin {"health_url", "health_cmd", "verify"}

(***************************************************************************)
(* Claims about the development topology                                   *)
(***************************************************************************)
C2_Apps == Kw(resources.dev_docker_resources, "apps")

\* C2: the topology declares exactly five applications, Postgres/pgvector on
\* host port 5433, Redis on 6379, Qdrant on 6333, Streamlit on 8501 and
\* FastAPI on 8000, with pairwise distinct ports, and
\* dev_docker_resources.apps holds these five and nothing else.
C2_Topology ==
    resources.loaded =>
        /\ Len(C2_Apps) = 5
        /\ {<<C2_Apps[i].cls, PublishedPort(C2_Apps[i])>> : i \in DOMAIN C2_Apps}
             = {<<"PgVectorDb", 5433>>, <<"Redis", 6379>>, <<"QdrantDb", 6333>>,
                <<"Streamlit", 8501>>, <<"FastApi", 8000>>}
        /\ \A i, j \in DOMAIN C2_Apps :
              i # j => PublishedPort(C2_Apps[i]) # PublishedPort(C2_Apps[j])
        /\ \A i \in DOMAIN C2_Apps :
              C2_Apps[i] \in {resources.dev_db, resources.dev_redis, resources.dev_qdrant,
                              resources.dev_streamlit, resources.dev_fastapi}

\* the module has been loaded with the database and both applications
\* disabled in the workspace settings
C2_Witness ==
    /\ resources.loaded
    /\ ~ws_settings.dev_db_enabled
    /\ ~ws_settings.dev_app_enabled
    /\ ~ws_settings.dev_api_enabled

(***************************************************************************)
(* Claims about the agent factories                                        *)
(***************************************************************************)
C9_TeamIds(a) == [i \in DOMAIN Kw(a, "team") |-> Kw(Kw(a, "team")[i], "agent_id")]

\* keyword k of a is given and is not None
C9_IsSet(a, k) == k \in Keywords(a) /\ Kw(a, k) # NoneObject

\* C9: for every combination of model_id, user_id, session_id and
\* debug_mode, get_example_agent returns the coordinator 'aigi3-super-agent'
\* whose team is finance-analyst, research-analyst, productivity-assistant in
\* that order, with agent ids pairwise distinct and distinct from the
\* coordinator's, and whose storage and knowledge are set.
C9_Coordinator ==
    agent.fn = "get_example_agent" =>
        LET a == agent.value
            ids == C9_TeamIds(a)
        IN  /\ Kw(a, "agent_id") = "aigi3-super-agent"
            /\ ids = <<"finance-analyst", "research-analyst", "productivity-assistant">>
            /\ \A i, j \in DOMAIN ids : i # j => ids[i] # ids[j]
            /\ \A i \in DOMAIN ids : ids[i] # Kw(a, "agent_id")
            /\ C9_IsSet(a, "storage")
            /\ C9_IsSet(a, "knowledge")

\* the coordinator has been built with every argument given
C9_Witness ==
    /\ agent.fn = "get_example_agent"
    /\ agent.args.model_id.some /\ agent.args.model_id.val # ""
    /\ agent.args.user_id.some
    /\ agent.args.session_id.some
    /\ agent.args.debug_mode

C10_ToolClasses(a) == {Kw(a, "tools")[i].cls : i \in DOMAIN Kw(a, "tools")}

C10_Specialist(a, name, id, tool) ==
    /\ Kw(a, "name") = name
    /\ Kw(a, "agent_id") = id
    /\ Len(Kw(a, "tools")) >= 5
    /\ tool \in C10_ToolClasses(a)

\* C10: each specialist factory returns an agent with its fixed identity
\* and at least five tools including its signature tool: YFinanceTools for
\* the Finance Analyst, DuckDuckGo for the Research Analyst and PythonREPL
\* for the Productivity Assistant.
C10_Specialists ==
    /\ agent.fn = "get_finance_agent" =>
          C10_Specialist(agent.value, "Finance Analyst", "finance-analyst", "YFinanceTools")
    /\ agent.fn = "get_research_agent" =>
          C10_Specialist(agent.value, "Research Analyst", "research-analyst", "DuckDuckGo")
    /\ agent.fn = "get_productivity_agent" =>
          C10_Specialist(agent.value, "Productivity Assistant", "productivity-assistant",
                         "PythonREPL")

\* the finance analyst has been built
C10_Witness ==
    /\ agent.fn = "get_finance_agent"
    /\ Kw(agent.value, "name") = "Finance Analyst"

\* the day a coordinator's research analyst was built on
C11_Day(a) == Kw(Kw(Kw(a, "team")[2], "tools")[3], "start_published_date")

\* the model id the coordinator must carry for the argument model_id
C11_ModelId(model_id) ==
    IF model_id.some /\ model_id.val # "" THEN model_id.val ELSE agent_settings.gpt_4

C11_ArgumentsUsed ==
    LET a == agent.value
    IN  /\ Kw(Kw(a, "model"), "id") = C11_ModelId(agent.args.model_id)
        /\ Kw(a, "session_id") = agent.args.session_id
        /\ Kw(a, "user_id") = agent.args.user_id
        /\ Kw(a, "debug_mode") = agent.args.debug_mode
        /\ \A i \in DOMAIN Kw(a, "team") :
              Kw(Kw(Kw(a, "team")[i], "model"), "id") = agent_settings.gpt_4

\* C11: get_example_agent uses its arguments only so: the coordinator's
\* model id is model_id when that is a non-empty string and
\* agent_settings.gpt_4 when it is None or empty; session_id, user_id and
\* debug_mode reach the coordinator unchanged; and two calls made on the
\* same day build the same three team members whatever their arguments.
C11_ArgumentsOnly ==
    [][agent'.fn = "get_example_agent" =>
          /\ C11_ArgumentsUsed'
          /\ (agent.fn = "get_example_agent" /\ C11_Day(agent.value) = C11_Day(agent'.value))
                 => Kw(agent'.value, "team") = Kw(agent.value, "team")]_vars

\* the coordinator has been built with the empty string as model_id and
\* carries the default model
C11_Witness ==
    /\ agent.fn = "get_example_agent"
    /\ agent.args.model_id = Some("")
    /\ agent.args.debug_mode
    /\ Kw(Kw(agent.value, "model"), "id") = agent_settings.gpt_4

(***************************************************************************)
(* Claims about running the tests and recovering a service                 *)
(***************************************************************************)
\* the commands the last top-level call has run
C12_Commands ==
    LET runs == SelectSeq(trace, LAMBDA e : e.ev = "run")
    IN  [i \in DOMAIN runs |-> runs[i].what]

\* the command line for a value of test_type
C12_Expected(t) == IF t.some /\ t.val # "" THEN "pytest -m " \o t.val ELSE "pytest"

\* C12: run_tests never raises and returns True exactly when the pytest
\* process exits with code 0; it passes '-m <test_type>' for a non-empty
\* test_type and no marker for None or the empty string; when pytest cannot
\* be started it returns False.
C12_RunTests ==
    ret.fn = "run_tests" =>
        /\ ret.returned
        /\ ret.ok <=> (pytest.started /\ pytest.returncode = 0)
        /\ \A t \in {None, Some(""), Some("unit"), Some("integration")} :
              trace[1] = Event("call", "run_tests(" \o Repr(t) \o ")") =>
                 C12_Commands = <<C12_Expected(t)>>

\* run_tests('') has been called with a pytest that fails: the whole suite
\* was run and the result is False
C12_Witness ==
    /\ ret.fn = "run_tests"
    /\ trace[1] = Event("call", "run_tests('')")
    /\ pytest.started /\ pytest.returncode = 1
    /\ ~ret.ok
    /\ C12_Commands = <<"pytest">>

\* the methods the last top-level call has called, in order
C13_Calls ==
    LET calls == SelectSeq(trace, LAMBDA e : e.ev = "call")
    IN  [i \in DOMAIN calls |-> calls[i].what]

\* C13: handle_service_failure restarts the service, validates its health
\* and notifies the admins of the recovery, in that order, and a failure of
\* any of these steps is escalated through escalate_incident, never raised
\* to the caller.
C13_Recovery ==
    ret.fn = "handle_service_failure" =>
        /\ ret.returned
        /\ \E name \in {"database", "redis", "mailer"} :
              \/ Tail(C13_Calls) \in
                    { <<"restart_service(" \o name \o ")",
                        "validate_service_health(" \o name \o ")",
                        "notify_admins(Service " \o name \o " recovered)">>,
                      <<"notify_admins(Service " \o name \o " recovered)">> }
              \/ /\ Len(C13_Calls) >= 2
                 /\ C13_Calls[Len(C13_Calls)] = "escalate_incident(" \o name \o ")"

(***************************************************************************)
(* Claims about setup_dev_environment                                      *)
(***************************************************************************)
\* the trace is that of a run of setup_dev_environment
C14_SetupRun == trace # <<>> /\ trace[1] = Event("call", "setup_dev_environment()")

\* the positions of an event in the trace
C14_At(e) == {i \in DOMAIN trace : trace[i] = e}

C14_Done(e) == C14_At(e) # {}

\* the run is over
C14_Over == C14_SetupRun /\ pc = "idle"

\* the requirements were found unmet and the user was asked
C14_Asked == C14_Done(Event("input", "Continue anyway? (y/n): "))

C14_Yes == answer.some /\ answer.val # "" /\ SubSeq(answer.val, 1, 1) \in {"y", "Y"}

C14_No == answer.some /\ ~C14_Yes

\* a step after the requirements check has left something in the trace
C14_WentOn ==
    \E i \in DOMAIN trace :
        \/ trace[i].ev \in {"mkdir", "write", "failed", "run"}
        \/ trace[i] \in {Event("call", "validate_dependencies()"),
                         Event("call", "setup_test_environment()"),
                         Event("call", "run_tests('unit')")}

\* C14: in setup_dev_environment, when check_system_requirements is not
\* ok and the answer to 'Continue anyway?' does not start with 'y' or 'Y',
\* the function returns before validate_dependencies, setup_test_environment
\* and run_tests are called, so that no directory or file is created and no
\* test is run; when the answer starts with 'y' or 'Y', or the requirements
\* are met, validate_dependencies and setup_test_environment are called.
C14_ContinueAnyway ==
    C14_SetupRun =>
        /\ (C14_Asked /\ C14_No) =>
              /\ ~C14_WentOn
              /\ C14_Over
              /\ ret = Returned("setup_dev_environment", FALSE, <<>>, EmptyDict, <<>>)
        /\ (C14_Over /\ C14_Done(Event("call", "check_system_requirements()"))
            /\ (~C14_Asked \/ C14_Yes)) =>
              /\ C14_Done(Event("call", "validate_dependencies()"))
              /\ C14_Done(Event("call", "setup_test_environment()"))

\* on a machine with too little memory the user answered ' y' and the run
\* returned without creating anything
C14_Witness ==
    /\ C14_Over
    /\ C14_Asked
    /\ answer = Some(" y")
    /\ ret.fn = "setup_dev_environment" /\ ret.returned
    /\ ~C14_WentOn

C15_Panel == Event("print", "Development Environment Setup Complete!")

C15_Before(e, i) == \E j \in C14_At(e) : j < i

\* the order of the setup steps in a run of setup_dev_environment
C15_Order ==
    /\ \A i \in C14_At(Event("call", "run_tests('unit')")) :
          C15_Before(Event("return", "setup_test_environment"), i)
    /\ \A i \in DOMAIN trace :
          /\ (trace[i].ev = "call" /\ C18_StartsWith(trace[i].what, "run_tests"))
                => trace[i].what = "run_tests('unit')"
          /\ trace[i].ev = "run" => trace[i].what = "pytest -m unit"
    /\ \A i \in C14_At(C15_Panel) :
          /\ C15_Before(Event("return", "setup_test_environment"), i)
          /\ C15_Before(Event("return", "run_tests"), i)
    /\ (C14_Done(Event("return", "run_tests")) /\ C14_Over) =>
          /\ C14_Done(C15_Panel)
          /\ ~(pytest.started /\ pytest.returncode = 0) =>
                \A i \in C14_At(C15_Panel) :
                   C15_Before(Event("print", "Warning: Some initial tests failed"), i)

C15_RunTestsCalls == Cardinality(C14_At(Event("call", "run_tests('unit')")))

\* C15 as stated: in every run of setup_dev_environment that reaches
\* the setup steps, setup_test_environment completes before run_tests starts,
\* run_tests is invoked exactly once and only with the marker 'unit', and the
\* completion panel is printed only after both; failing unit tests give a
\* warning and do not prevent the panel.
C15_StepsAsStated ==
    C14_SetupRun =>
        /\ C15_Order
        /\ (C14_Over /\ C14_Done(Event("call", "setup_test_environment()"))) =>
              C15_RunTestsCalls = 1

\* C15 amended: as stated, with run_tests invoked at most once in every
\* run, and exactly once in the runs in which setup_test_environment returns.
C15_Steps ==
    C14_SetupRun =>
        /\ C15_Order
        /\ C15_RunTestsCalls <= 1
        /\ (C14_Over /\ C14_Done(Event("return", "setup_test_environment"))) =>
              C15_RunTestsCalls = 1

\* a run whose unit tests failed has printed the warning and the panel
C15_Witness ==
    /\ C14_Over
    /\ pytest.started /\ pytest.returncode = 1
    /\ C15_RunTestsCalls = 1
    /\ C14_Done(Event("print", "Warning: Some initial tests failed"))
    /\ C14_Done(C15_Panel)

\* a file operation of a setup step has raised
C16_StepRaised == \E i \in DOMAIN trace : trace[i].ev = "failed"

\* C16: in setup_dev_environment the dependency issues are only printed
\* and never abort the setup, whereas an exception raised by a setup step
\* prints the error panel, is re-raised to the caller, and the completion
\* panel is not printed in that run.
C16_IssuesAndErrors ==
    C14_SetupRun =>
        /\ (C14_Over /\ C14_Done(Event("print", "Dependency Issues:"))) =>
              C14_Done(Event("call", "setup_test_environment()"))
        /\ C16_StepRaised =>
              /\ C14_Over
              /\ C14_Done(Event("print", "Error during setup"))
              /\ ret.fn = "setup_dev_environment"
              /\ ret.raised = "OSError"
              /\ ~C14_Done(C15_Panel)

\* a run that printed dependency issues went on and failed when writing
\* pytest.ini
C16_Witness ==
    /\ C14_Over
    /\ C14_Done(Event("print", "Dependency Issues:"))
    /\ C14_Done(Event("failed", "pytest.ini"))
    /\ ret.raised = "OSError"

(***************************************************************************)
(* Claims about the test scaffold                                          *)
(***************************************************************************)
\* the directories and files of the scaffold, in the order stated
C21_Directories ==
    <<"tests/unit", "tests/integration", "tests/e2e", "tests/fixtures", "tests/mocks">>

C21_Files ==
    <<"pytest.ini", "tests/conftest.py", "tests/unit/test_agents.py",
      "tests/integration/test_database.py", "tests/e2e/test_api.py">>

\* the file operations the run has completed, in order
C21_Operations == SelectSeq(trace, LAMBDA e : e.ev \in {"mkdir", "write"})

\* the positions of the '/' characters of a path
C21_Slashes(path) == {i \in 1..Len(path) : SubSeq(path, i, i) = "/"}

\* the directory a path lies in ("" for the project root)
C21_Parent(path) ==
    IF C21_Slashes(path) = {} THEN ""
    ELSE SubSeq(path, 1, (CHOOSE i \in C21_Slashes(path) :
                             \A j \in C21_Slashes(path) : j <= i) - 1)

\* dir exists before position i of the trace: it is the project root, or a
\* directory made earlier, or an ancestor of one (mkdir(parents=True))
C21_Exists(dir, i) ==
    \/ dir = ""
    \/ \E j \in 1..(i - 1) :
          /\ trace[j].ev = "mkdir"
          /\ \/ trace[j].what = dir
             \/ /\ Len(trace[j].what) > Len(dir)
                /\ SubSeq(trace[j].what, 1, Len(dir) + 1) = dir \o "/"

\* C21: setup_test_environment makes the directories tests/unit,
\* tests/integration, tests/e2e, tests/fixtures and tests/mocks before it
\* writes any file, then writes pytest.ini, then tests/conftest.py, then the
\* three example test files under tests/unit, tests/integration and
\* tests/e2e; every file is written into a directory that exists by then.
C21_Scaffold ==
    C14_Done(Event("call", "setup_test_environment()")) =>
        LET stated == [i \in 1..10 |->
                          IF i <= 5 THEN Event("mkdir", C21_Directories[i])
                          ELSE Event("write", C21_Files[i - 5])]
            done == C21_Operations
        IN  /\ Len(done) <= 10
            /\ done = SubSeq(stated, 1, Len(done))
            /\ C14_Done(Event("return", "setup_test_environment")) => done = stated
            /\ \A i \in DOMAIN trace :
                  trace[i].ev = "write" => C21_Exists(C21_Parent(trace[i].what), i)

\* setup_test_environment has returned after all ten operations
C21_Witness ==
    /\ C14_Done(Event("return", "setup_test_environment"))
    /\ Len(C21_Operations) = 10
    /\ C21_Operations[10] = Event("write", "tests/e2e/test_api.py")

\* the generators registered for a test type
C22_Registered(type) ==
    {test_templates[i].method : i \in {j \in DOMAIN test_templates :
                                          test_templates[j].type = type}}

C22_Generators == C22_Registered("unit") \cup C22_Registered("integration")
                  \cup C22_Registered("e2e")

\* C22: test_templates registers six unit, six integration and five e2e
\* generators; constructing DevEnvSetup completes, and invoking any
\* registered generator completes and writes its file through
\* write_test_file, without an unresolved reference.
C22_GeneratorsResolve ==
    /\ Cardinality(C22_Registered("unit")) = 6
    /\ Cardinality(C22_Registered("integration")) = 6
    /\ Cardinality(C22_Registered("e2e")) = 5
    /\ ret.fn = "__init__" => ret.returned
    /\ ret.fn \in C22_Generators =>
          /\ ret.returned
          /\ \E i \in DOMAIN trace : trace[i].ev = "write"

(***************************************************************************)
(* Claims about the configuration's cross references                       *)
(***************************************************************************)
\* C23: the backup agent of the coordinator's fallback pattern is the
\* agent_id of one of the three agents of its team.
C23_BackupInTeam ==
    agent.fn = "get_example_agent" =>
        Kw(agent.value, "coordination_patterns").fallback.backup_agent
            \in Range(C9_TeamIds(agent.value))

\* the keys of the container_env dictionary
C24_ContainerKeys == {resources.container_env[i][1] : i \in DOMAIN resources.container_env}

\* C24: every variable that validate_env_vars requires is a key of
\* container_env.
C24_EnvCoversCheck ==
    resources.loaded =>
        \A i \in DOMAIN required_vars : required_vars[i][1] \in C24_ContainerKeys

\* the apps an app depends on
C25_DependsOn(app) ==
    IF "depends_on" \in Keywords(app) THEN Range(Kw(app, "depends_on")) ELSE {}

\* C25: Streamlit and FastAPI each depend on exactly db, redis and
\* qdrant; every dependency of an app is in dev_docker_resources.apps and
\* listed there before the app that depends on it, so that depends_on has no
\* cycle.
C25_Dependencies ==
    resources.loaded =>
        /\ \A app \in {resources.dev_streamlit, resources.dev_fastapi} :
              /\ C25_DependsOn(app)
                    = {resources.dev_db, resources.dev_redis, resources.dev_qdrant}
              /\ app \in Range(C2_Apps)
        /\ \A i \in DOMAIN C2_Apps :
              \A d \in C25_DependsOn(C2_Apps[i]) : \E j \in 1..(i - 1) : C2_Apps[j] = d

\* the module has been loaded with the default settings: the API depends
\* on three services and is the last of the apps
C25_Witness ==
    /\ resources.loaded
    /\ ws_settings = DefaultSettings
    /\ Cardinality(C25_DependsOn(resources.dev_fastapi)) = 3
    /\ C2_Apps[Len(C2_Apps)] = resources.dev_fastapi

(***************************************************************************)
(* Specification                                                           *)
(***************************************************************************)
\* a machine that meets every minimum exactly
GoodSystem ==
    [python |-> Measured(<<3, 9>>), ram |-> Measured(8192),
     disk |-> Measured(10240), cpu |-> Measured(2)]

AllTools == [git |-> TRUE, docker |-> TRUE, node |-> TRUE]

AllOk == [s \in ProbeSites |-> "ok"]

World(e, c, sys, t, plat, o) ==
    [env |-> e, compose |-> c, system |-> sys, tools |-> t, platform |-> plat, probes |-> o]

\* The worlds the validators are run in.  Each varies one part of a fully
\* configured, healthy installation: the environment (with or without a
\* compose file), the compose file, the machine and its tools, or the
\* probes of the deployment (in a configured and in an unconfigured project).
Worlds ==
    {World(e, c, GoodSystem, AllTools, "Linux", AllOk) :
        e \in Envs(MaxAbsent), c \in {GoodCompose, NoFile("missing")}}
    \cup {World(FullEnv, c, GoodSystem, AllTools, "Linux", AllOk) : c \in Composes}
    \cup {World(FullEnv, GoodCompose, sys, t, "Linux", AllOk) :
            sys \in Systems, t \in [git : BOOLEAN, docker : BOOLEAN, node : BOOLEAN]}
    \cup {World(w[1], w[2], GoodSystem, AllTools, plat, o) :
            w \in {<<FullEnv, GoodCompose>>,
                   <<EnvWith({"PHI_API_KEY"}, {"DB_PASSWORD"}), NoFile("missing")>>},
            plat \in {"Linux", "Windows"},
            o \in ProbeOutcomes(MaxFaults)}

InWorld(w) ==
    /\ env = w.env
    /\ compose = w.compose
    /\ system = w.system
    /\ tools = w.tools
    /\ platform = w.platform
    /\ probes = w.probes

HealthyWorld == World(FullEnv, GoodCompose, GoodSystem, AllTools, "Linux", AllOk)

Init ==
    /\ \E w \in Worlds : InWorld(w)
    /\ ret = NoCall
    /\ ws_settings = DefaultSettings
    /\ resources = NotLoaded
    /\ agent_settings = DefaultAgentSettings
    /\ agent = NoAgent
    /\ Idle

Next ==
    \/ CheckSystemRequirements
    \/ ValidateDependencies
    \/ ValidateConfiguration
    \/ ValidateEnvVars
    \/ ValidateDockerCompose
    \/ ValidateDeployment

Spec == Init /\ [][Next]_vars

\* the resource declarations, for every setting of the workspace and with
\* the API keys set or unset
InitResources ==
    /\ \E e \in Envs(1) : InWorld(World(e, GoodCompose, GoodSystem, AllTools, "Linux", AllOk))
    /\ ret = NoCall
    /\ ws_settings \in WorkspaceSettings
    /\ resources = NotLoaded
    /\ agent_settings = DefaultAgentSettings
    /\ agent = NoAgent
    /\ Idle

SpecResources == InitResources /\ [][LoadDevResources]_vars

\* the agent factories, for every setting of the default model
InitAgents ==
    /\ InWorld(HealthyWorld)
    /\ ret = NoCall
    /\ ws_settings = DefaultSettings
    /\ resources = NotLoaded
    /\ agent_settings \in AgentSettings
    /\ agent = NoAgent
    /\ Idle

NextAgents ==
    \/ GetFinanceAgent
    \/ GetResearchAgent
    \/ GetProductivityAgent
    \/ GetExampleAgent

SpecAgents == InitAgents /\ [][NextAgents]_vars

\* a poor machine: the memory is below the minimum
PoorSystem == [GoodSystem EXCEPT !.ram = Measured(8191)]

\* the machines, answers, tools, pytest processes and file faults a run of
\* the setup is checked against
SetupWorlds ==
    ({GoodSystem, PoorSystem,
      [GoodSystem EXCEPT !.python = Measured(<<3, 8>>), !.cpu = Measured(1)],
      [GoodSystem EXCEPT !.cpu = ProbeFailed(0)],
      [GoodSystem EXCEPT !.ram = ProbeFailed(0)],
      [GoodSystem EXCEPT !.disk = ProbeFailed(0)]}
     \X {AllTools} \X Answers \X {PytestPassed} \X {0})
    \cup
    ({GoodSystem, PoorSystem}
     \X {AllTools, [AllTools EXCEPT !.git = FALSE]}
     \X {Some("Y"), Some("n")} \X PytestOutcomes \X Faults)

InitSetup ==
    /\ \E w \in SetupWorlds :
          /\ InWorld(World(FullEnv, GoodCompose, w[1], w[2], "Linux", AllOk))
          /\ answer = w[3]
          /\ pytest = w[4]
          /\ fault = w[5]
    /\ pc = "idle"
    /\ trace = <<>>
    /\ ret = NoCall
    /\ ws_settings = DefaultSettings
    /\ resources = NotLoaded
    /\ agent_settings = DefaultAgentSettings
    /\ agent = NoAgent

NextSetup ==
    \/ Construct
    \/ Generate
    \/ RunTests
    \/ HandleServiceFailure
    \/ SetupDevEnvironment
    \/ SetupCheckRequirements
    \/ SetupAskContinue
    \/ SetupValidateDependencies
    \/ SetupTestEnvironment
    \/ SetupRunTests
    \/ SetupComplete

SpecSetup == InitSetup /\ [][NextSetup]_vars

====
